---- MODULE Spec2Model ----
(***************************************************************************)
(* A model of molstar's draw pass (mol-canvas3d/passes/draw.ts) and of the *)
(* renderer it drives (mol-gl/renderer.ts).                                *)
(*                                                                         *)
(* The program is single threaded: every public operation (a renderer      *)
(* pass, DrawPass.setSize, DrawPass.render) is one action.  The commands   *)
(* an operation issues to the GPU and to its collaborators are appended,   *)
(* in program order, to `log`, which holds the commands of the latest      *)
(* operation; `call` names that operation and its arguments.               *)
(*                                                                         *)
(* Matrices are abstracted to the identity of the camera and group they    *)
(* are computed from.  Alpha values are fractions with denominator         *)
(* AlphaDen; a product of two of them has denominator AlphaDen * AlphaDen. *)
(***************************************************************************)
EXTENDS Integers, Sequences, FiniteSets, TLC

VARIABLES
    dp,      \* the DrawPass object: targets, textures, depth-merge uniform, wboit
    gl,      \* the WebGL state (state cache, bound framebuffer, attachments)
    rnd,     \* the Renderer closure: viewport, flags, global uniforms
    objs,    \* the drawables (GraphicsRenderable) by id
    scene,   \* Scene: the primitives and the volumes group
    helper,  \* Helper: debug, handle and camera overlays
    log,     \* commands issued by the latest operation, in program order
    call     \* the latest operation and its arguments

vars == <<dp, gl, rnd, objs, scene, helper, log, call>>

---------------------------------------------------------------------------
(* Bounds of the model *)

\* alpha, alphaFactor and transparencyAverage are multiples of 1 / AlphaDen
AlphaDen == 2
\* widths and heights range over 1 .. MaxDim
MaxDim == 2
\* a group of the program-sharing scenes holds at most MaxGroup drawables
MaxGroup == 3
\* drawables of the program-sharing scenes use programs 1 .. NumPrograms
NumPrograms == 2
\* a clip configuration holds at most MaxClipObjects objects
MaxClipObjects == 6
\* a renderer of the configuration histories takes at most MaxCalls calls
MaxCalls == 2

---------------------------------------------------------------------------
(* Values *)

\* the value 1.0 of a single alpha and of a product of two alphas
One == AlphaDen
OneSq == AlphaDen * AlphaDen

NullTexture == "nullDepthTexture"
NoProgram == <<0, "none">>

PickVariants == {"pickObject", "pickInstance", "pickGroup"}
Variants == PickVariants \cup {"depth", "colorBlended", "colorWboit"}

Rect(x, y, w, h) == [x |-> x, y |-> y, width |-> w, height |-> h]

\* a drawable with the defaults of an opaque mesh
Drawable(id) ==
    [ id |-> id,
      \* r.state
      visible |-> TRUE, pickable |-> TRUE, colorOnly |-> FALSE, opaque |-> TRUE,
      writeDepth |-> FALSE, noClip |-> FALSE, alphaFactor |-> One,
      \* r.values
      alpha |-> One, uAlpha |-> OneSq, transparencyAverage |-> 0,
      dRenderMode |-> "undefined",        \* "undefined" | "volume" | "isosurface"
      dPointFilledCircle |-> FALSE,       \* undefined reads as false
      dXrayShaded |-> FALSE,              \* undefined reads as false
      uBackgroundColor |-> FALSE,         \* whether the value cell is present
      dDoubleSided |-> "undefined",       \* "undefined" | "true" | "false"
      dFlipSided |-> "undefined",         \* "undefined" | "true" | "false"
      hasReflection |-> FALSE,
      dClipObjectCount |-> 0, dClipVariant |-> "instance",
      \* the shader the programs of its variants are compiled from
      program |-> 1 ]

Group(name, ids) == [name |-> name, renderables |-> ids]

Camera(id, viewport) == [kind |-> "camera", id |-> id, viewport |-> viewport]

StereoCamera(left, right) == [kind |-> "stereo", left |-> left, right |-> right]

\* StereoCamera.is
StereoCameraIs(camera) == camera.kind = "stereo"

---------------------------------------------------------------------------
(* mol-math clamp, as used for alpha *)

clamp(v, lo, hi) == IF v < lo THEN lo ELSE IF v > hi THEN hi ELSE v

---------------------------------------------------------------------------
(* Renderer.create *)

\* WebGL's initial state, as cached by the context's state object
GLInit ==
    [ BLEND |-> FALSE, DEPTH_TEST |-> FALSE, CULL_FACE |-> FALSE, SCISSOR_TEST |-> FALSE,
      depthMask |-> TRUE, colorMask |-> <<TRUE, TRUE, TRUE, TRUE>>,
      frontFace |-> "CCW", cullFace |-> "BACK",
      clearColor |-> "0,0,0,0", blendFunc |-> "ONE,ZERO",
      currentProgramId |-> NoProgram, currentRenderItemId |-> -1,
      viewport |-> Rect(0, 0, 0, 0), scissor |-> Rect(0, 0, 0, 0),
      framebuffer |-> "drawingBuffer",
      attach |-> [fb \in {"drawingBuffer", "colorTarget"} |-> "none"] ]

\* the capacity of the clip object arrays
ClipCapacity == 5

\* Color.fromNormalizedRgb, with the channels given in tenths
FromNormalizedRgb(r, g, b) ==
    ((r * 255) \div 10) * 65536 + ((g * 255) \div 10) * 256 + ((b * 255) \div 10)

\* Color.toVec3Normalized: the channels of a color, over 255
ToVec3Normalized(color) == <<(color \div 65536) % 256, (color \div 256) % 256, color % 256>>

\* the values of a style, in tenths
StyleValues(lightIntensity, ambientIntensity, metalness, roughness, reflectivity) ==
    [ lightIntensity |-> lightIntensity, ambientIntensity |-> ambientIntensity,
      metalness |-> metalness, roughness |-> roughness, reflectivity |-> reflectivity ]

\* the params of the styles that have none
NoParams == StyleValues(0, 0, 0, 0, 0)

Style(name) == [name |-> name, params |-> NoParams]

CustomStyle(params) == [name |-> "custom", params |-> params]

getStyle(props) ==
    CASE props.name = "custom" -> props.params
      [] props.name = "flat" -> StyleValues(0, 10, 0, 4, 5)
      [] props.name = "matte" -> StyleValues(6, 4, 0, 10, 5)
      [] props.name = "glossy" -> StyleValues(6, 4, 0, 4, 5)
      [] props.name = "metallic" -> StyleValues(6, 4, 4, 6, 5)
      [] props.name = "plastic" -> StyleValues(6, 4, 0, 2, 5)

\* Clipping.Type[p.type]
ClippingType(type) ==
    CASE type = "none" -> 0
      [] type = "plane" -> 1
      [] type = "sphere" -> 2
      [] type = "cube" -> 3

\* Quat.setAxisAngle of a unit axis and an angle in degrees, for 0 and 180
setAxisAngle(axis, angle) ==
    IF angle = 0 THEN <<0, 0, 0, 1>> ELSE <<axis[1], axis[2], axis[3], 0>>

\* array[index] = value of a JavaScript array: a write past the end grows it
SetAt(array, index, value) ==
    IF index <= Len(array) THEN [array EXCEPT ![index] = value] ELSE Append(array, value)

\* Vec3.toArray, Quat.toArray: the components go to out[offset], out[offset + 1], ...
RECURSIVE toArray(_, _, _, _)
toArray(v, out, offset, i) ==
    IF i > Len(v) THEN out ELSE toArray(v, SetAt(out, offset + i, v[i]), offset, i + 1)

\* the arrays getClip starts from when it is given none
NewClipObjects ==
    [ count |-> 0,
      type |-> [i \in 1 .. ClipCapacity |-> 1],
      position |-> [i \in 1 .. ClipCapacity * 3 |-> 0],
      rotation |-> [i \in 1 .. ClipCapacity * 4 |-> 0],
      scale |-> [i \in 1 .. ClipCapacity * 3 |-> 1] ]

\* lines 447-453: the loop of getClip from object i on
RECURSIVE getClipObjects(_, _, _)
getClipObjects(objects, arrays, i) ==
    IF i > Len(objects)
    THEN arrays
    ELSE getClipObjects(objects,
            [ count |-> arrays.count,
              type |-> SetAt(arrays.type, i, ClippingType(objects[i].type)),
              position |-> toArray(objects[i].position, arrays.position, (i - 1) * 3, 1),
              rotation |-> toArray(setAxisAngle(objects[i].rotation.axis,
                                                objects[i].rotation.angle),
                                   arrays.rotation, (i - 1) * 4, 1),
              scale |-> toArray(objects[i].scale, arrays.scale, (i - 1) * 3, 1) ],
            i + 1)

\* getClip(props, clip), with the arrays of clip or new ones
getClip(props, arrays) ==
    [ variant |-> props.variant,
      objects |-> [getClipObjects(props.objects, arrays, 1)
                       EXCEPT !.count = Len(props.objects)] ]

\* PD.getDefaultValues(RendererParams)
DefaultProps ==
    [ backgroundColor |-> 0,
      pickingAlphaThreshold |-> 5,
      interiorDarkening |-> 5,
      interiorColorFlag |-> TRUE,
      interiorColor |-> FromNormalizedRgb(3, 3, 3),
      highlightColor |-> FromNormalizedRgb(10, 4, 6),
      selectColor |-> FromNormalizedRgb(2, 10, 1),
      style |-> Style("matte"),
      clip |-> [variant |-> "instance", objects |-> <<>>] ]

\* a partial configuration: the keys of DOMAIN props are those that are defined
Defined(props, key) == key \in DOMAIN props

NoProps == <<>>

\* PD.merge
Merge(defaults, props) ==
    [key \in DOMAIN defaults |-> IF Defined(props, key) THEN props[key] ELSE defaults[key]]

RendererCreateWith(fragDepth, props) ==
    LET p == Merge(DefaultProps, props)
        style == getStyle(p.style)
        clip == getClip(p.clip, NewClipObjects)
        bgColor == ToVec3Normalized(p.backgroundColor)
    IN  [ fragDepth |-> fragDepth,
          p |-> p,
          style |-> style,
          clip |-> clip,
          viewport |-> Rect(0, 0, 0, 0),
          drawingBufferSize |-> <<0, 0>>,
          bgColor |-> bgColor,
          transparentBackground |-> FALSE,
          tDepth |-> NullTexture,
          globalUniformsNeedUpdate |-> TRUE,
          u |-> [ uModel |-> "identity", uView |-> "zero", uModelView |-> <<"zero", "zero">>,
                  uViewportHeight |-> 0,
                  uViewport |-> Rect(0, 0, 0, 0), uDrawingBufferSize |-> <<0, 0>>,
                  uFogColor |-> bgColor,
                  uRenderWboit |-> FALSE, uTransparentBackground |-> FALSE,
                  uClipObjectType |-> clip.objects.type,
                  uClipObjectPosition |-> clip.objects.position,
                  uClipObjectRotation |-> clip.objects.rotation,
                  uClipObjectScale |-> clip.objects.scale,
                  uLightIntensity |-> style.lightIntensity,
                  uAmbientIntensity |-> style.ambientIntensity,
                  uMetalness |-> style.metalness,
                  uRoughness |-> style.roughness,
                  uReflectivity |-> style.reflectivity,
                  uPickingAlphaThreshold |-> p.pickingAlphaThreshold,
                  uInteriorDarkening |-> p.interiorDarkening,
                  uInteriorColorFlag |-> p.interiorColorFlag,
                  uInteriorColor |-> ToVec3Normalized(p.interiorColor),
                  uHighlightColor |-> ToVec3Normalized(p.highlightColor),
                  uSelectColor |-> ToVec3Normalized(p.selectColor) ] ]

\* Renderer.create(ctx) with the default configuration
RendererCreate(fragDepth) == RendererCreateWith(fragDepth, NoProps)

---------------------------------------------------------------------------
(* The execution context threaded through the operations of one call *)

Ctx == [dp |-> dp, gl |-> gl, rnd |-> rnd, objs |-> objs, log |-> <<>>,
        pass |-> "none", group |-> "none", error |-> "none"]

Emit(c, e) == [c EXCEPT !.log = Append(@, e)]

\* F applied to the value of v: one statement followed by the rest of the body
Do(v, F(_)) == CHOOSE result \in {F(x) : x \in {v}} : TRUE

---------------------------------------------------------------------------
(* renderObject *)

\* r.getProgram(variant).id: drawables compiled from the same shader share
\* the program of each variant
getProgram(r, variant) == <<r.program, variant>>

\* faulty variant: the drawable is re-linked at every draw
resolveClipDefinesAlways(c, id) ==
    LET r == c.objs[id]
        clip == c.rnd.clip
        count == IF r.noClip THEN 0 ELSE clip.objects.count
        variant == IF r.noClip THEN r.dClipVariant ELSE clip.variant
    IN  Emit([c EXCEPT !.objs[id].dClipObjectCount = count,
                       !.objs[id].dClipVariant = variant],
             [op |-> "r.update", id |-> id])

\* lines 552-568: bring the drawable's clip defines up to date
resolveClipDefines(c, id) ==
    LET r == c.objs[id]
        clip == c.rnd.clip
        count == IF r.noClip THEN 0 ELSE clip.objects.count
        variant == IF r.noClip THEN r.dClipVariant ELSE clip.variant
        definesNeedUpdate == r.dClipObjectCount # count \/ r.dClipVariant # variant
        c1 == [c EXCEPT !.objs[id].dClipObjectCount = count,
                        !.objs[id].dClipVariant = variant]
    IN  IF definesNeedUpdate THEN Emit(c1, [op |-> "r.update", id |-> id]) ELSE c1

\* lines 570-575: bind the program unless it is the one bound
\* faulty variant: binding a program does not flag the global uniforms
useProgramOnly(c, program) ==
    IF c.gl.currentProgramId # program
    THEN Emit([c EXCEPT !.gl.currentProgramId = program],
              [op |-> "program.use", program |-> program])
    ELSE c

useProgram(c, program) ==
    IF c.gl.currentProgramId # program
    THEN Emit([c EXCEPT !.rnd.globalUniformsNeedUpdate = TRUE,
                        !.gl.currentProgramId = program],
              [op |-> "program.use", program |-> program])
    ELSE c

\* faulty variant: the global uniforms are uploaded for every draw
setGlobalUniformsAlways(c, program) ==
    Emit([c EXCEPT !.rnd.globalUniformsNeedUpdate = FALSE],
         [op |-> "program.setUniforms", program |-> program, values |-> c.rnd.u,
          pass |-> c.pass, group |-> c.group])

\* lines 577-581: upload the global uniforms to the bound program when flagged
setGlobalUniforms(c, program) ==
    IF c.rnd.globalUniformsNeedUpdate
    THEN Emit([c EXCEPT !.rnd.globalUniformsNeedUpdate = FALSE],
              [op |-> "program.setUniforms", program |-> program, values |-> c.rnd.u,
               pass |-> c.pass, group |-> c.group])
    ELSE c

\* faulty variant: the depth state of a direct volume is set in every variant
setDrawStateInEveryVariant(c, r, variant) ==
    IF r.dRenderMode # "undefined"
    THEN IF r.dRenderMode = "volume" \/ ~c.rnd.fragDepth
         THEN [c EXCEPT !.gl.CULL_FACE = FALSE, !.gl.frontFace = "CCW",
                        !.gl.DEPTH_TEST = FALSE, !.gl.depthMask = FALSE]
         ELSE [c EXCEPT !.gl.CULL_FACE = FALSE, !.gl.frontFace = "CCW",
                        !.gl.DEPTH_TEST = TRUE, !.gl.depthMask = (r.uAlpha = OneSq)]
    ELSE LET cull == IF r.dDoubleSided # "undefined"
                     THEN ~(r.dDoubleSided = "true" \/ r.hasReflection)
                     ELSE FALSE
             flip == r.dFlipSided = "true"
         IN  [c EXCEPT !.gl.CULL_FACE = cull,
                       !.gl.frontFace = IF flip THEN "CW" ELSE "CCW",
                       !.gl.cullFace = IF flip THEN "FRONT" ELSE "BACK"]

\* faulty variant: a drawable without the flip define keeps the winding and
\* the culled face of the draw before it
setDrawStateKeepsWinding(c, r, variant) ==
    IF r.dRenderMode # "undefined"
    THEN [c EXCEPT !.gl.CULL_FACE = FALSE, !.gl.frontFace = "CCW"]
    ELSE LET cull == IF r.dDoubleSided # "undefined"
                     THEN ~(r.dDoubleSided = "true" \/ r.hasReflection)
                     ELSE FALSE
             flip == r.dFlipSided = "true"
         IN  IF r.dFlipSided = "undefined"
             THEN [c EXCEPT !.gl.CULL_FACE = cull]
             ELSE [c EXCEPT !.gl.CULL_FACE = cull,
                            !.gl.frontFace = IF flip THEN "CW" ELSE "CCW",
                            !.gl.cullFace = IF flip THEN "FRONT" ELSE "BACK"]

\* lines 583-624: cull, winding and depth state of the draw
setDrawState(c, r, variant) ==
    IF r.dRenderMode # "undefined"
    THEN LET g1 == [c.gl EXCEPT !.CULL_FACE = FALSE, !.frontFace = "CCW"]
             g2 == IF variant = "colorBlended"
                   THEN IF r.dRenderMode = "volume" \/ ~c.rnd.fragDepth
                        THEN [g1 EXCEPT !.DEPTH_TEST = FALSE, !.depthMask = FALSE]
                        ELSE [g1 EXCEPT !.DEPTH_TEST = TRUE, !.depthMask = (r.uAlpha = OneSq)]
                   ELSE g1
         IN  [c EXCEPT !.gl = g2]
    ELSE LET cull == IF r.dDoubleSided # "undefined"
                     THEN ~(r.dDoubleSided = "true" \/ r.hasReflection)
                     ELSE FALSE
             flip == r.dFlipSided = "true"
         IN  [c EXCEPT !.gl.CULL_FACE = cull,
                       !.gl.frontFace = IF flip THEN "CW" ELSE "CCW",
                       !.gl.cullFace = IF flip THEN "FRONT" ELSE "BACK"]

\* line 626: r.render(variant, sharedTexturesList); the render item refreshes
\* uAlpha from alpha and alphaFactor and becomes the current render item
drawRenderable(c, id, variant, program) ==
    LET r == c.objs[id]
        c1 == [c EXCEPT !.objs[id].uAlpha = clamp(r.alpha * r.alphaFactor, 0, OneSq),
                        !.gl.currentRenderItemId = id]
    IN  Emit(c1, [op |-> "draw", id |-> id, variant |-> variant, program |-> program,
                  pass |-> c.pass, group |-> c.group, tDepth |-> c.rnd.tDepth,
                  fb |-> c.gl.framebuffer, state |-> c.gl, uniforms |-> c.rnd.u])

\* faulty variant: a drawable that is not pickable is skipped in every variant
renderObjectPickableOnly(c0, id, variant) ==
    LET r == c0.objs[id] IN
    Do(Emit(c0, [op |-> "renderObject", id |-> id, variant |-> variant,
                 pass |-> c0.pass, group |-> c0.group]), LAMBDA c :
    IF ~r.visible \/ ~r.pickable
    THEN c
    ELSE Do(resolveClipDefines(c, id), LAMBDA c1 :
         Do(useProgram(c1, getProgram(c1.objs[id], variant)), LAMBDA c2 :
         Do(setGlobalUniforms(c2, getProgram(c1.objs[id], variant)), LAMBDA c3 :
         Do(setDrawState(c3, c3.objs[id], variant), LAMBDA c4 :
         drawRenderable(c4, id, variant, getProgram(c1.objs[id], variant)))))))

\* lines 547-627
renderObject(c0, id, variant) ==
    LET r == c0.objs[id] IN
    Do(Emit(c0, [op |-> "renderObject", id |-> id, variant |-> variant,
                 pass |-> c0.pass, group |-> c0.group]), LAMBDA c :
    IF ~r.visible \/ (~r.pickable /\ variant \in PickVariants)
    THEN c
    ELSE Do(resolveClipDefines(c, id), LAMBDA c1 :
         Do(useProgram(c1, getProgram(c1.objs[id], variant)), LAMBDA c2 :
         Do(setGlobalUniforms(c2, getProgram(c1.objs[id], variant)), LAMBDA c3 :
         Do(setDrawState(c3, c3.objs[id], variant), LAMBDA c4 :
         drawRenderable(c4, id, variant, getProgram(c1.objs[id], variant)))))))

---------------------------------------------------------------------------
(* update, updateInternal *)

update(c, camera) ==
    Emit([c EXCEPT !.rnd.u.uView = camera.id,
                   !.rnd.u.uTransparentBackground = c.rnd.transparentBackground],
         [op |-> "update", camera |-> camera.id])

\* faulty variant: a pass without depth texture keeps the one of the pass before
updateInternalKeepsDepthTexture(c, group, camera, depthTexture, renderWboit) ==
    [c EXCEPT !.rnd.tDepth = IF depthTexture = "null" THEN @ ELSE depthTexture,
              !.rnd.u.uModel = group.name,
              !.rnd.u.uModelView = <<group.name, camera.id>>,
              !.rnd.u.uRenderWboit = renderWboit,
              !.gl.SCISSOR_TEST = TRUE,
              !.gl.colorMask = <<TRUE, TRUE, TRUE, TRUE>>,
              !.gl.viewport = c.rnd.viewport,
              !.gl.scissor = c.rnd.viewport,
              !.rnd.globalUniformsNeedUpdate = TRUE,
              !.gl.currentRenderItemId = -1]

\* faulty variant: uRenderWboit keeps the value of the pass before
updateInternalKeepsRenderWboit(c, group, camera, depthTexture, renderWboit) ==
    [c EXCEPT !.rnd.tDepth = IF depthTexture = "null" THEN NullTexture ELSE depthTexture,
              !.rnd.u.uModel = group.name,
              !.rnd.u.uModelView = <<group.name, camera.id>>,
              !.gl.SCISSOR_TEST = TRUE,
              !.gl.colorMask = <<TRUE, TRUE, TRUE, TRUE>>,
              !.gl.viewport = c.rnd.viewport,
              !.gl.scissor = c.rnd.viewport,
              !.rnd.globalUniformsNeedUpdate = TRUE,
              !.gl.currentRenderItemId = -1]

\* lines 648-668
updateInternal(c, group, camera, depthTexture, renderWboit) ==
    [c EXCEPT !.rnd.tDepth = IF depthTexture = "null" THEN NullTexture ELSE depthTexture,
              !.rnd.u.uModel = group.name,
              !.rnd.u.uModelView = <<group.name, camera.id>>,
              !.rnd.u.uRenderWboit = renderWboit,
              !.gl.SCISSOR_TEST = TRUE,
              !.gl.colorMask = <<TRUE, TRUE, TRUE, TRUE>>,
              !.gl.viewport = c.rnd.viewport,
              !.gl.scissor = c.rnd.viewport,
              !.rnd.globalUniformsNeedUpdate = TRUE,
              !.gl.currentRenderItemId = -1]

\* the texture that receives the depth of the draws into the bound
\* framebuffer: its depth attachment, or the texture of a packed-depth target
depthWritten(c) ==
    CASE c.gl.framebuffer \in DOMAIN c.gl.attach -> c.gl.attach[c.gl.framebuffer]
      [] c.gl.framebuffer = "wboit" -> "none"
      [] OTHER -> c.dp[c.gl.framebuffer].texture

\* the entry of a pass into the command log
beginPass(c, name, group, camera, depthTexture) ==
    Emit([c EXCEPT !.pass = name, !.group = group.name],
         [op |-> "pass", name |-> name, group |-> group.name, camera |-> camera.id,
          depthTexture |-> depthTexture, fb |-> c.gl.framebuffer,
          writes |-> depthWritten(c)])

---------------------------------------------------------------------------
(* The selections of the passes *)

\* line 776 / 792: alpha = clamp(r.values.alpha * r.state.alphaFactor, 0, 1)
wboitAlpha(r) == clamp(r.alpha * r.alphaFactor, 0, OneSq)

\* faulty variant: alpha is not tested
wboitOpaqueSelectedAnyAlpha(r) ==
    /\ r.transparencyAverage # One
    /\ r.dRenderMode # "volume"
    /\ ~r.dPointFilledCircle
    /\ ~r.dXrayShaded

\* faulty variant: the render mode is not tested
wboitOpaqueSelectedAnyMode(r) ==
    /\ wboitAlpha(r) = OneSq
    /\ r.transparencyAverage # One
    /\ ~r.dPointFilledCircle
    /\ ~r.dXrayShaded

\* line 777: the drawables renderWboitOpaque hands to renderObject
wboitOpaqueSelected(r) ==
    /\ wboitAlpha(r) = OneSq
    /\ r.transparencyAverage # One
    /\ r.dRenderMode # "volume"
    /\ ~r.dPointFilledCircle
    /\ ~r.dXrayShaded

\* faulty variant: an average transparency of 1 is not selected
wboitTransparentSelectedBelowOne(r) ==
    \/ wboitAlpha(r) < OneSq
    \/ r.transparencyAverage > 0 /\ r.transparencyAverage < One
    \/ r.dRenderMode = "volume"
    \/ r.dPointFilledCircle
    \/ r.uBackgroundColor
    \/ r.dXrayShaded

\* faulty variant: the average transparency is not tested
wboitTransparentSelectedAnyAverage(r) ==
    \/ wboitAlpha(r) < OneSq
    \/ r.dRenderMode = "volume"
    \/ r.dPointFilledCircle
    \/ r.uBackgroundColor
    \/ r.dXrayShaded

\* line 793: the drawables renderWboitTransparent hands to renderObject
wboitTransparentSelected(r) ==
    \/ wboitAlpha(r) < OneSq
    \/ r.transparencyAverage > 0
    \/ r.dRenderMode = "volume"
    \/ r.dPointFilledCircle
    \/ r.uBackgroundColor
    \/ r.dXrayShaded

\* faulty variant: the depth-writing selection does not test r.state.opaque
selectedDepthWriters(selection, r) ==
    CASE selection = "all" -> TRUE
      [] selection = "notColorOnly" -> ~r.colorOnly
      [] selection = "opaque" -> r.opaque
      [] selection = "transparentWriteDepth" -> r.writeDepth
      [] selection = "transparentNoWriteDepth" -> ~r.opaque /\ ~r.writeDepth
      [] selection = "wboitOpaque" -> wboitOpaqueSelected(r)
      [] selection = "wboitTransparent" -> wboitTransparentSelected(r)

\* the conditions of the loops of the passes (lines 679-793)
selected(selection, r) ==
    CASE selection = "all" -> TRUE
      [] selection = "notColorOnly" -> ~r.colorOnly
      [] selection = "opaque" -> r.opaque
      [] selection = "transparentWriteDepth" -> ~r.opaque /\ r.writeDepth
      [] selection = "transparentNoWriteDepth" -> ~r.opaque /\ ~r.writeDepth
      [] selection = "wboitOpaque" -> wboitOpaqueSelected(r)
      [] selection = "wboitTransparent" -> wboitTransparentSelected(r)

\* for (let i = 0, il = renderables.length; i < il; ++i) if (...) renderObject(r, variant)
RECURSIVE renderSelected(_, _, _, _, _)
renderSelected(c, renderables, i, selection, variant) ==
    IF i > Len(renderables)
    THEN c
    ELSE Do(IF selected(selection, c.objs[renderables[i]])
            THEN renderObject(c, renderables[i], variant)
            ELSE c, LAMBDA c1 :
         renderSelected(c1, renderables, i + 1, selection, variant))

---------------------------------------------------------------------------
(* The passes of the renderer *)

renderPick(c, group, camera, variant, depthTexture) ==
    Do(beginPass(c, "renderPick", group, camera, depthTexture), LAMBDA c0 :
    Do([c0 EXCEPT !.gl.BLEND = FALSE, !.gl.DEPTH_TEST = TRUE, !.gl.depthMask = TRUE],
       LAMBDA c1 :
    Do(updateInternal(c1, group, camera, depthTexture, FALSE), LAMBDA c2 :
    renderSelected(c2, group.renderables, 1, "notColorOnly", variant))))

renderDepth(c, group, camera, depthTexture) ==
    Do(beginPass(c, "renderDepth", group, camera, depthTexture), LAMBDA c0 :
    Do([c0 EXCEPT !.gl.BLEND = FALSE, !.gl.DEPTH_TEST = TRUE, !.gl.depthMask = TRUE],
       LAMBDA c1 :
    Do(updateInternal(c1, group, camera, depthTexture, FALSE), LAMBDA c2 :
    renderSelected(c2, group.renderables, 1, "all", "depth"))))

renderBlendedOpaque(c, group, camera, depthTexture) ==
    Do(beginPass(c, "renderBlendedOpaque", group, camera, depthTexture), LAMBDA c0 :
    Do([c0 EXCEPT !.gl.BLEND = FALSE, !.gl.DEPTH_TEST = TRUE, !.gl.depthMask = TRUE],
       LAMBDA c1 :
    Do(updateInternal(c1, group, camera, depthTexture, FALSE), LAMBDA c2 :
    renderSelected(c2, group.renderables, 1, "opaque", "colorBlended"))))

renderBlendedTransparent(c, group, camera, depthTexture) ==
    Do(beginPass(c, "renderBlendedTransparent", group, camera, depthTexture), LAMBDA c0 :
    Do([c0 EXCEPT !.gl.DEPTH_TEST = TRUE], LAMBDA c1 :
    Do(updateInternal(c1, group, camera, depthTexture, FALSE), LAMBDA c2 :
    Do([c2 EXCEPT !.gl.blendFunc =
                      IF c2.rnd.transparentBackground
                      THEN "ONE,ONE_MINUS_SRC_ALPHA"
                      ELSE "SRC_ALPHA,ONE_MINUS_SRC_ALPHA,ONE,ONE_MINUS_SRC_ALPHA",
                  !.gl.BLEND = TRUE,
                  !.gl.depthMask = TRUE], LAMBDA c3 :
    Do(renderSelected(c3, group.renderables, 1, "transparentWriteDepth", "colorBlended"),
       LAMBDA c4 :
    Do([c4 EXCEPT !.gl.depthMask = FALSE], LAMBDA c5 :
    renderSelected(c5, group.renderables, 1, "transparentNoWriteDepth", "colorBlended")))))))

\* faulty variant: the transparent drawables are drawn first
renderBlendedTransparentFirst(c, group, camera, depthTexture) ==
    Do(renderBlendedTransparent(c, group, camera, depthTexture), LAMBDA c1 :
    renderBlendedOpaque(c1, group, camera, depthTexture))

renderBlended(c, group, camera, depthTexture) ==
    Do(renderBlendedOpaque(c, group, camera, depthTexture), LAMBDA c1 :
    renderBlendedTransparent(c1, group, camera, depthTexture))

renderBlendedVolume(c, group, camera, depthTexture) ==
    Do(beginPass(c, "renderBlendedVolume", group, camera, depthTexture), LAMBDA c0 :
    Do([c0 EXCEPT !.gl.blendFunc = "ONE,ONE_MINUS_SRC_ALPHA", !.gl.BLEND = TRUE], LAMBDA c1 :
    Do(updateInternal(c1, group, camera, depthTexture, FALSE), LAMBDA c2 :
    renderSelected(c2, group.renderables, 1, "all", "colorBlended"))))

renderWboitOpaque(c, group, camera, depthTexture) ==
    Do(beginPass(c, "renderWboitOpaque", group, camera, depthTexture), LAMBDA c0 :
    Do([c0 EXCEPT !.gl.BLEND = FALSE, !.gl.DEPTH_TEST = TRUE, !.gl.depthMask = TRUE],
       LAMBDA c1 :
    Do(updateInternal(c1, group, camera, depthTexture, FALSE), LAMBDA c2 :
    renderSelected(c2, group.renderables, 1, "wboitOpaque", "colorWboit"))))

renderWboitTransparent(c, group, camera, depthTexture) ==
    Do(beginPass(c, "renderWboitTransparent", group, camera, depthTexture), LAMBDA c0 :
    Do(updateInternal(c0, group, camera, depthTexture, TRUE), LAMBDA c2 :
    renderSelected(c2, group.renderables, 1, "wboitTransparent", "colorWboit")))

---------------------------------------------------------------------------
(* clear, clearDepth and the setters of the renderer *)

\* faulty variant: the depth mask and the color mask are left as they are
clearKeepsMasks(c, toBackgroundColor) ==
    LET g == [c.gl EXCEPT !.viewport = c.rnd.viewport,
                          !.scissor = c.rnd.viewport,
                          !.SCISSOR_TEST = TRUE,
                          !.DEPTH_TEST = TRUE,
                          !.clearColor = IF c.rnd.transparentBackground THEN "0,0,0,0"
                                         ELSE IF toBackgroundColor THEN "bgColor,1"
                                         ELSE "1,1,1,1"]
    IN  Emit([c EXCEPT !.gl = g],
             [op |-> "clear", mask |-> "COLOR|DEPTH", toBackgroundColor |-> toBackgroundColor,
              fb |-> g.framebuffer, state |-> g])

\* lines 800-819
clear(c, toBackgroundColor) ==
    LET g == [c.gl EXCEPT !.viewport = c.rnd.viewport,
                          !.scissor = c.rnd.viewport,
                          !.SCISSOR_TEST = TRUE,
                          !.DEPTH_TEST = TRUE,
                          !.colorMask = <<TRUE, TRUE, TRUE, TRUE>>,
                          !.depthMask = TRUE,
                          !.clearColor = IF c.rnd.transparentBackground THEN "0,0,0,0"
                                         ELSE IF toBackgroundColor THEN "bgColor,1"
                                         ELSE "1,1,1,1"]
    IN  Emit([c EXCEPT !.gl = g],
             [op |-> "clear", mask |-> "COLOR|DEPTH", toBackgroundColor |-> toBackgroundColor,
              fb |-> g.framebuffer, state |-> g])

\* faulty variant: the depth buffer is not cleared
clearDepthSkipped(c) == c

clearDepth(c) ==
    LET g == [c.gl EXCEPT !.SCISSOR_TEST = TRUE, !.DEPTH_TEST = TRUE, !.depthMask = TRUE]
    IN  Emit([c EXCEPT !.gl = g],
             [op |-> "clearDepth", mask |-> "DEPTH", fb |-> g.framebuffer, state |-> g])

\* ValueCell.update of a global uniform
ValueCellUpdate(c, cell, value) ==
    Emit([c EXCEPT !.rnd.u[cell] = value], [op |-> "ValueCell.update", cell |-> cell])

\* faulty variant: the value is written whether or not it changed
ValueCellUpdateAlways(c, cell, value) == ValueCellUpdate(c, cell, value)

\* ValueCell.updateIfChanged of a global uniform
ValueCellUpdateIfChanged(c, cell, value) ==
    IF c.rnd.u[cell] # value THEN ValueCellUpdate(c, cell, value) ELSE c

\* lines 838-842
setPropsBackgroundColor(c, props) ==
    IF Defined(props, "backgroundColor") /\ props.backgroundColor # c.rnd.p.backgroundColor
    THEN ValueCellUpdate([c EXCEPT !.rnd.p.backgroundColor = props.backgroundColor,
                                   !.rnd.bgColor = ToVec3Normalized(props.backgroundColor)],
                         "uFogColor", ToVec3Normalized(props.backgroundColor))
    ELSE c

\* faulty variant: the value given is not stored in the configuration
setPropsValueDropped(c, props, key, cell) ==
    IF Defined(props, key) /\ props[key] # c.rnd.p[key]
    THEN ValueCellUpdate(c, cell, props[key])
    ELSE c

\* lines 844-856: a configuration value that is uploaded as it is
setPropsValue(c, props, key, cell) ==
    IF Defined(props, key) /\ props[key] # c.rnd.p[key]
    THEN ValueCellUpdate([c EXCEPT !.rnd.p[key] = props[key]], cell, props[key])
    ELSE c

\* lines 857-869: a color that is uploaded as a vector
setPropsColor(c, props, key, cell) ==
    IF Defined(props, key) /\ props[key] # c.rnd.p[key]
    THEN ValueCellUpdate([c EXCEPT !.rnd.p[key] = props[key]], cell,
                         ToVec3Normalized(props[key]))
    ELSE c

\* lines 871-879
setPropsStyle(c, props) ==
    IF Defined(props, "style")
    THEN Do([c EXCEPT !.rnd.p.style = props.style,
                      !.rnd.style = getStyle(props.style)], LAMBDA c1 :
         Do(ValueCellUpdateIfChanged(c1, "uLightIntensity", c1.rnd.style.lightIntensity),
            LAMBDA c2 :
         Do(ValueCellUpdateIfChanged(c2, "uAmbientIntensity", c2.rnd.style.ambientIntensity),
            LAMBDA c3 :
         Do(ValueCellUpdateIfChanged(c3, "uMetalness", c3.rnd.style.metalness), LAMBDA c4 :
         Do(ValueCellUpdateIfChanged(c4, "uRoughness", c4.rnd.style.roughness), LAMBDA c5 :
         ValueCellUpdateIfChanged(c5, "uReflectivity", c5.rnd.style.reflectivity))))))
    ELSE c

\* lines 881-888; deepEqual is equality of the values
setPropsClip(c, props) ==
    IF Defined(props, "clip") /\ props.clip # c.rnd.p.clip
    THEN Do([c EXCEPT !.rnd.p.clip = props.clip,
                      !.rnd.clip = getClip(props.clip, c.rnd.clip.objects)], LAMBDA c1 :
         Do(ValueCellUpdate(c1, "uClipObjectPosition", c1.rnd.clip.objects.position),
            LAMBDA c2 :
         Do(ValueCellUpdate(c2, "uClipObjectRotation", c2.rnd.clip.objects.rotation),
            LAMBDA c3 :
         Do(ValueCellUpdate(c3, "uClipObjectScale", c3.rnd.clip.objects.scale), LAMBDA c4 :
         ValueCellUpdate(c4, "uClipObjectType", c4.rnd.clip.objects.type)))))
    ELSE c

setProps(c, props) ==
    Do(setPropsBackgroundColor(c, props), LAMBDA c1 :
    Do(setPropsValue(c1, props, "pickingAlphaThreshold", "uPickingAlphaThreshold"), LAMBDA c2 :
    Do(setPropsValue(c2, props, "interiorDarkening", "uInteriorDarkening"), LAMBDA c3 :
    Do(setPropsValue(c3, props, "interiorColorFlag", "uInteriorColorFlag"), LAMBDA c4 :
    Do(setPropsColor(c4, props, "interiorColor", "uInteriorColor"), LAMBDA c5 :
    Do(setPropsColor(c5, props, "highlightColor", "uHighlightColor"), LAMBDA c6 :
    Do(setPropsColor(c6, props, "selectColor", "uSelectColor"), LAMBDA c7 :
    Do(setPropsStyle(c7, props), LAMBDA c8 :
    setPropsClip(c8, props)))))))))

\* get props
props(c) == c.rnd.p

setViewport(c, x, y, width, height) ==
    Do([c EXCEPT !.gl.viewport = Rect(x, y, width, height),
                 !.gl.scissor = Rect(x, y, width, height)], LAMBDA c1 :
    IF Rect(x, y, width, height) # c1.rnd.viewport
    THEN Do([c1 EXCEPT !.rnd.viewport = Rect(x, y, width, height)], LAMBDA c2 :
         Do(ValueCellUpdate(c2, "uViewportHeight", height), LAMBDA c3 :
         ValueCellUpdate(c3, "uViewport", Rect(x, y, width, height))))
    ELSE c1)

setTransparentBackground(c, value) ==
    [c EXCEPT !.rnd.transparentBackground = value]

setDrawingBufferSize(c, width, height) ==
    IF <<width, height>> # c.rnd.drawingBufferSize
    THEN ValueCellUpdate([c EXCEPT !.rnd.drawingBufferSize = <<width, height>>],
                         "uDrawingBufferSize", <<width, height>>)
    ELSE c

---------------------------------------------------------------------------
(* DrawPass: constructor and setSize *)

Target(width, height, texture) ==
    [present |-> TRUE, width |-> width, height |-> height, texture |-> texture]

NullTarget == [present |-> FALSE, width |-> 0, height |-> 0, texture |-> "none"]

Size(width, height) == [width |-> width, height |-> height]

\* RenderTarget.setSize: the target and the texture it owns take the size
targetSetSize(d, target, width, height) ==
    [d EXCEPT ![target].width = width, ![target].height = height,
              !.textures[d[target].texture] = Size(width, height)]

\* Texture.define
textureDefine(d, texture, width, height) ==
    [d EXCEPT !.textures[texture] = Size(width, height)]

\* getDepthMergeRenderable
getDepthMergeRenderable(depthTexturePrimitives, depthTextureVolumes, packedDepth, textures) ==
    [ tDepthPrimitives |-> depthTexturePrimitives,
      tDepthVolumes |-> depthTextureVolumes,
      uTexSize |-> <<textures[depthTexturePrimitives].width,
                     textures[depthTexturePrimitives].height>>,
      dPackedDepth |-> packedDepth ]

\* new DrawPass(webgl, width, height, enableWboit); depthTextureExt and
\* wboitSupported are the device's capabilities
DrawPassNew(width, height, enableWboit, depthTextureExt, wboitSupported) ==
    LET packedDepth == ~depthTextureExt
        textures == [t \in {"colorTarget.texture", "depthTexture",
                            "depthTexturePrimitives", "depthTextureVolumes"}
                       |-> Size(width, height)]
    IN  [ packedDepth |-> packedDepth,
          colorTarget |-> Target(width, height, "colorTarget.texture"),
          depthTarget |-> Target(width, height, "depthTexture"),
          depthTargetPrimitives |->
              IF packedDepth THEN Target(width, height, "depthTexturePrimitives")
              ELSE NullTarget,
          depthTargetVolumes |->
              IF packedDepth THEN Target(width, height, "depthTextureVolumes")
              ELSE NullTarget,
          textures |-> textures,
          depthMerge |-> getDepthMergeRenderable("depthTexturePrimitives",
                             "depthTextureVolumes", packedDepth, textures),
          wboit |-> IF enableWboit
                    THEN [present |-> TRUE, enabled |-> wboitSupported,
                          width |-> width, height |-> height]
                    ELSE [present |-> FALSE, enabled |-> FALSE, width |-> 0, height |-> 0] ]

\* get wboitEnabled
wboitEnabled(d) == d.wboit.present /\ d.wboit.enabled

setSizePrimitives(c, width, height) ==
    IF c.dp.depthTargetPrimitives.present
    THEN Emit([c EXCEPT !.dp = targetSetSize(@, "depthTargetPrimitives", width, height)],
              [op |-> "setSize", on |-> "depthTargetPrimitives"])
    ELSE Emit([c EXCEPT !.dp = textureDefine(@, "depthTexturePrimitives", width, height)],
              [op |-> "define", on |-> "depthTexturePrimitives"])

\* faulty variant: the volumes depth texture keeps its size
setSizeVolumesSkipped(c, width, height) == c

setSizeVolumes(c, width, height) ==
    IF c.dp.depthTargetVolumes.present
    THEN Emit([c EXCEPT !.dp = targetSetSize(@, "depthTargetVolumes", width, height)],
              [op |-> "setSize", on |-> "depthTargetVolumes"])
    ELSE Emit([c EXCEPT !.dp = textureDefine(@, "depthTextureVolumes", width, height)],
              [op |-> "define", on |-> "depthTextureVolumes"])

setSizeWboit(c, width, height) ==
    IF wboitEnabled(c.dp)
    THEN Emit([c EXCEPT !.dp.wboit.width = width, !.dp.wboit.height = height],
              [op |-> "setSize", on |-> "wboit"])
    ELSE c

\* faulty variant: the texture size of the depth merge is not updated
resizeTargetsOnly(c, width, height) ==
    Do(Emit([c EXCEPT !.dp = targetSetSize(@, "colorTarget", width, height)],
            [op |-> "setSize", on |-> "colorTarget"]), LAMBDA c1 :
    Do(Emit([c1 EXCEPT !.dp = targetSetSize(@, "depthTarget", width, height)],
            [op |-> "setSize", on |-> "depthTarget"]), LAMBDA c2 :
    Do(setSizePrimitives(c2, width, height), LAMBDA c3 :
    Do(setSizeVolumes(c3, width, height), LAMBDA c4 :
    setSizeWboit(c4, width, height)))))

\* lines 103-122: the body of setSize's guard
resize(c, width, height) ==
    Do(Emit([c EXCEPT !.dp = targetSetSize(@, "colorTarget", width, height)],
            [op |-> "setSize", on |-> "colorTarget"]), LAMBDA c1 :
    Do(Emit([c1 EXCEPT !.dp = targetSetSize(@, "depthTarget", width, height)],
            [op |-> "setSize", on |-> "depthTarget"]), LAMBDA c2 :
    Do(setSizePrimitives(c2, width, height), LAMBDA c3 :
    Do(setSizeVolumes(c3, width, height), LAMBDA c4 :
    Do(Emit([c4 EXCEPT !.dp.depthMerge.uTexSize = <<width, height>>],
            [op |-> "ValueCell.update", cell |-> "uTexSize"]), LAMBDA c5 :
    setSizeWboit(c5, width, height))))))

\* faulty variant: the comparison with the current size is left out
setSizeUnguarded(c, width, height) == resize(c, width, height)

setSize(c, width, height) ==
    IF width # c.dp.colorTarget.width \/ height # c.dp.colorTarget.height
    THEN resize(c, width, height)
    ELSE c

---------------------------------------------------------------------------
(* DrawPass: render *)

\* RenderTarget.bind, WebGLContext.unbindFramebuffer, WboitPass.bind
bind(c, fb) ==
    Emit([c EXCEPT !.gl.framebuffer = fb], [op |-> "bind", fb |-> fb])

\* Texture.attachFramebuffer(framebuffer, 'depth')
attachFramebuffer(c, texture, fb) ==
    Emit([c EXCEPT !.gl.attach[fb] = texture],
         [op |-> "attachFramebuffer", texture |-> texture, fb |-> fb])

\* faulty variant: the depths are not merged
_depthMergeSkipped(c, camera) == c

\* faulty variant: the quad is drawn with the state the passes left
_depthMergeKeepsState(c, camera) ==
    Do(Emit(c, [op |-> "depthMerge.update"]), LAMBDA c1 :
    Do(bind(c1, "depthTarget"), LAMBDA c2 :
    Do([c2 EXCEPT !.gl.clearColor = "1,1,1,1"], LAMBDA c3 :
    Do(Emit(c3, [op |-> "gl.clear", mask |-> "COLOR", fb |-> c3.gl.framebuffer,
                 state |-> c3.gl]), LAMBDA c4 :
    Emit(c4, [op |-> "depthMerge.render", fb |-> c4.gl.framebuffer, state |-> c4.gl,
              values |-> c4.dp.depthMerge, textures |-> c4.dp.textures])))))

\* lines 126-143
_depthMerge(c, camera) ==
    Do(Emit(c, [op |-> "depthMerge.update"]), LAMBDA c1 :
    Do(bind(c1, "depthTarget"), LAMBDA c2 :
    Do([c2 EXCEPT !.gl.BLEND = FALSE, !.gl.DEPTH_TEST = FALSE, !.gl.CULL_FACE = FALSE,
                  !.gl.depthMask = FALSE, !.gl.clearColor = "1,1,1,1"], LAMBDA c3 :
    Do(Emit(c3, [op |-> "gl.clear", mask |-> "COLOR", fb |-> c3.gl.framebuffer,
                 state |-> c3.gl]), LAMBDA c4 :
    Emit(c4, [op |-> "depthMerge.render", fb |-> c4.gl.framebuffer, state |-> c4.gl,
              values |-> c4.dp.depthMerge, textures |-> c4.dp.textures])))))

\* lines 154-195: the order-independent path with wboit enabled
_renderWboitPath(c, camera, sc, renderTarget) ==
    Do(bind(c, renderTarget), LAMBDA b1 :
    Do(clear(b1, TRUE), LAMBDA c1 :
    \* render opaque primitives
    Do(attachFramebuffer(c1, "depthTexturePrimitives", renderTarget), LAMBDA a2 :
    Do(bind(a2, renderTarget), LAMBDA c2 :
    Do(renderWboitOpaque(c2, sc.primitives, camera, "null"), LAMBDA c3 :
    \* render opaque volumes
    Do(attachFramebuffer(c3, "depthTextureVolumes", renderTarget), LAMBDA a4 :
    Do(bind(a4, renderTarget), LAMBDA c4 :
    Do(clearDepth(c4), LAMBDA c5 :
    Do(renderWboitOpaque(c5, sc.volumes, camera, "depthTexturePrimitives"), LAMBDA c6 :
    \* merge depth of opaque primitives and volumes
    Do(_depthMerge(c6, camera), LAMBDA c7 :
    \* render transparent primitives and volumes
    Do(bind(c7, "wboit"), LAMBDA c8 :
    Do(renderWboitTransparent(c8, sc.primitives, camera, "depthTexture"), LAMBDA c9 :
    Do(renderWboitTransparent(c9, sc.volumes, camera, "depthTexture"), LAMBDA c10 :
    \* evaluate wboit
    Do(attachFramebuffer(c10, "depthTexturePrimitives", renderTarget), LAMBDA a11 :
    Do(bind(a11, renderTarget), LAMBDA c11 :
    Emit(c11, [op |-> "wboit.render", viewport |-> camera.viewport,
               fb |-> c11.gl.framebuffer]))))))))))))))))

\* faulty variant: the path is entered without testing wboitEnabled
_renderWboitUnchecked(c, camera, sc, toDrawingBuffer) ==
    _renderWboitPath(c, camera, sc,
                     IF toDrawingBuffer THEN "drawingBuffer" ELSE "colorTarget")

\* lines 145-147: throws unless wboitEnabled, then renders the path
_renderWboit(c, camera, sc, toDrawingBuffer) ==
    IF ~wboitEnabled(c.dp)
    THEN Emit([c EXCEPT !.error = "expected wboit to be enabled"],
              [op |-> "throw", message |-> "expected wboit to be enabled"])
    ELSE _renderWboitPath(c, camera, sc,
                          IF toDrawingBuffer THEN "drawingBuffer" ELSE "colorTarget")

\* lines 199-206: bind the destination
_renderBlendedBind(c, toDrawingBuffer) ==
    IF toDrawingBuffer
    THEN bind(c, "drawingBuffer")
    ELSE Do(bind(c, "colorTarget"), LAMBDA b :
         IF ~b.dp.packedDepth
         THEN attachFramebuffer(b, "depthTexturePrimitives", "colorTarget")
         ELSE b)

\* lines 211-218: depth pass of the primitives into the packed-depth target
_renderBlendedDepthPrimitives(c, camera, sc, toDrawingBuffer) ==
    IF ~toDrawingBuffer /\ c.dp.depthTargetPrimitives.present
    THEN Do(bind(c, "depthTargetPrimitives"), LAMBDA b :
         Do(clear(b, FALSE), LAMBDA c1 :
         Do(renderDepth(c1, sc.primitives, camera, "null"), LAMBDA c2 :
         bind(c2, "colorTarget"))))
    ELSE c

\* lines 228-234: depth pass of the volumes into the packed-depth target
_renderBlendedDepthVolumes(c, camera, sc) ==
    IF c.dp.depthTargetVolumes.present
    THEN Do(bind(c, "depthTargetVolumes"), LAMBDA b :
         Do(clear(b, FALSE), LAMBDA d1 :
         Do(renderDepth(d1, sc.volumes, camera, "depthTexturePrimitives"), LAMBDA d2 :
         bind(d2, "colorTarget"))))
    ELSE c

\* faulty variant: the depth is cleared when the depth is packed
_renderBlendedVolumesClearedWhenPacked(c, camera, sc, toDrawingBuffer) ==
    IF ~toDrawingBuffer
    THEN Do(IF ~c.dp.packedDepth
            THEN attachFramebuffer(c, "depthTextureVolumes", "colorTarget")
            ELSE clearDepth(c), LAMBDA c1 :
         Do(renderBlendedVolume(c1, sc.volumes, camera, "depthTexturePrimitives"), LAMBDA c2 :
         Do(_renderBlendedDepthVolumes(c2, camera, sc), LAMBDA c3 :
         IF ~c3.dp.packedDepth
         THEN attachFramebuffer(c3, "depthTexturePrimitives", "colorTarget")
         ELSE c3)))
    ELSE c

\* faulty variant: the volumes are left out of the frame
_renderBlendedVolumesSkipped(c, camera, sc, toDrawingBuffer) == c

\* lines 220-239: direct-volume rendering
_renderBlendedVolumes(c, camera, sc, toDrawingBuffer) ==
    IF ~toDrawingBuffer
    THEN Do(IF ~c.dp.packedDepth
            THEN Do(attachFramebuffer(c, "depthTextureVolumes", "colorTarget"), LAMBDA a :
                 clearDepth(a))
            ELSE c, LAMBDA c1 :
         Do(renderBlendedVolume(c1, sc.volumes, camera, "depthTexturePrimitives"), LAMBDA c2 :
         Do(_renderBlendedDepthVolumes(c2, camera, sc), LAMBDA c3 :
         IF ~c3.dp.packedDepth
         THEN attachFramebuffer(c3, "depthTexturePrimitives", "colorTarget")
         ELSE c3)))
    ELSE c

\* faulty variant: the color target is not bound again after the depth merge
_renderBlendedLeavesDepthTarget(c, camera, sc, toDrawingBuffer) ==
    Do(_renderBlendedBind(c, toDrawingBuffer), LAMBDA c1 :
    Do(clear(c1, TRUE), LAMBDA c2 :
    Do(renderBlendedOpaque(c2, sc.primitives, camera, "null"), LAMBDA c3 :
    Do(_renderBlendedDepthPrimitives(c3, camera, sc, toDrawingBuffer), LAMBDA c4 :
    Do(_renderBlendedVolumes(c4, camera, sc, toDrawingBuffer), LAMBDA c5 :
    Do(renderBlendedTransparent(c5, sc.primitives, camera, "null"), LAMBDA c6 :
    IF ~toDrawingBuffer
    THEN _depthMerge(c6, camera)
    ELSE c6))))))

\* lines 198-248
_renderBlended(c, camera, sc, toDrawingBuffer) ==
    Do(_renderBlendedBind(c, toDrawingBuffer), LAMBDA c1 :
    Do(clear(c1, TRUE), LAMBDA c2 :
    Do(renderBlendedOpaque(c2, sc.primitives, camera, "null"), LAMBDA c3 :
    Do(_renderBlendedDepthPrimitives(c3, camera, sc, toDrawingBuffer), LAMBDA c4 :
    Do(_renderBlendedVolumes(c4, camera, sc, toDrawingBuffer), LAMBDA c5 :
    Do(renderBlendedTransparent(c5, sc.primitives, camera, "null"), LAMBDA c6 :
    \* merge depths from primitive and volume rendering
    IF ~toDrawingBuffer
    THEN Do(_depthMerge(c6, camera), LAMBDA c7 : bind(c7, "colorTarget"))
    ELSE c6))))))

\* lines 261-272: the helper overlays
_renderHelpers(c, camera, h) ==
    Do(IF h.debug.isEnabled
       THEN Do(Emit(c, [op |-> "helper.debug.syncVisibility"]), LAMBDA s :
            renderBlended(s, h.debug.scene, camera, "null"))
       ELSE c, LAMBDA c1 :
    Do(IF h.handle.isEnabled
       THEN renderBlended(c1, h.handle.scene, camera, "null")
       ELSE c1, LAMBDA c2 :
    IF h.camera.isEnabled
    THEN Do(Emit(c2, [op |-> "helper.camera.update", camera |-> camera.id]), LAMBDA c3 :
         Do(update(c3, h.camera.camera), LAMBDA c4 :
         renderBlended(c4, h.camera.scene, h.camera.camera, "null")))
    ELSE c2))

\* faulty variant: the helpers are drawn before the scene
_renderHelpersFirst(c, camera, sc, h, toDrawingBuffer) ==
    Do(Emit(c, [op |-> "_render", camera |-> camera.id, scene |-> sc, helper |-> h,
                toDrawingBuffer |-> toDrawingBuffer,
                transparentBackground |-> c.rnd.transparentBackground,
                drawingBufferSize |-> c.rnd.drawingBufferSize]), LAMBDA c0 :
    Do(setViewport(c0, camera.viewport.x, camera.viewport.y,
                   camera.viewport.width, camera.viewport.height), LAMBDA c1 :
    Do(update(c1, camera), LAMBDA c2 :
    Do(_renderHelpers(c2, camera, h), LAMBDA c3 :
    Do(IF wboitEnabled(c3.dp)
       THEN _renderWboit(c3, camera, sc, toDrawingBuffer)
       ELSE _renderBlended(c3, camera, sc, toDrawingBuffer), LAMBDA c4 :
    Emit(c4, [op |-> "gl.flush", fb |-> c4.gl.framebuffer]))))))

\* faulty variant: the path is chosen by the presence of the wboit sub-pass
_renderWhenRequested(c, camera, sc, h, toDrawingBuffer) ==
    Do(setViewport(c, camera.viewport.x, camera.viewport.y,
                   camera.viewport.width, camera.viewport.height), LAMBDA c1 :
    Do(update(c1, camera), LAMBDA c2 :
    Do(IF c2.dp.wboit.present
       THEN _renderWboit(c2, camera, sc, toDrawingBuffer)
       ELSE _renderBlended(c2, camera, sc, toDrawingBuffer), LAMBDA c3 :
    IF c3.error # "none"
    THEN c3
    ELSE Do(_renderHelpers(c3, camera, h), LAMBDA c4 :
         Emit(c4, [op |-> "gl.flush", fb |-> c4.gl.framebuffer])))))

\* lines 250-275; the log entry of the call records the renderer's
\* transparentBackground and drawingBufferSize as the call found them
_render(c, camera, sc, h, toDrawingBuffer) ==
    Do(Emit(c, [op |-> "_render", camera |-> camera.id, scene |-> sc, helper |-> h,
                toDrawingBuffer |-> toDrawingBuffer,
                transparentBackground |-> c.rnd.transparentBackground,
                drawingBufferSize |-> c.rnd.drawingBufferSize]), LAMBDA c0 :
    Do(setViewport(c0, camera.viewport.x, camera.viewport.y,
                   camera.viewport.width, camera.viewport.height), LAMBDA c1 :
    Do(update(c1, camera), LAMBDA c2 :
    Do(IF wboitEnabled(c2.dp)
       THEN _renderWboit(c2, camera, sc, toDrawingBuffer)
       ELSE _renderBlended(c2, camera, sc, toDrawingBuffer), LAMBDA c3 :
    IF c3.error # "none"
    THEN c3
    ELSE Do(_renderHelpers(c3, camera, h), LAMBDA c4 :
         Emit(c4, [op |-> "gl.flush", fb |-> c4.gl.framebuffer]))))))

\* faulty variant: the right eye is rendered before the left
renderSwapped(c, camera, sc, h, toDrawingBuffer, transparentBackground) ==
    Do(setTransparentBackground(c, transparentBackground), LAMBDA c1 :
    Do(setDrawingBufferSize(c1, c1.dp.colorTarget.width, c1.dp.colorTarget.height),
       LAMBDA c2 :
    IF StereoCameraIs(camera)
    THEN Do(_render(c2, camera.right, sc, h, toDrawingBuffer), LAMBDA l :
         _render(l, camera.left, sc, h, toDrawingBuffer))
    ELSE _render(c2, camera, sc, h, toDrawingBuffer)))

render(c, camera, sc, h, toDrawingBuffer, transparentBackground) ==
    Do(setTransparentBackground(c, transparentBackground), LAMBDA c1 :
    Do(setDrawingBufferSize(c1, c1.dp.colorTarget.width, c1.dp.colorTarget.height),
       LAMBDA c2 :
    IF StereoCameraIs(camera)
    THEN Do(_render(c2, camera.left, sc, h, toDrawingBuffer), LAMBDA l :
         IF l.error # "none"
         THEN l
         ELSE _render(l, camera.right, sc, h, toDrawingBuffer))
    ELSE _render(c2, camera, sc, h, toDrawingBuffer)))

---------------------------------------------------------------------------
(* Scenes, cameras and helpers the operations are exercised with *)

MonoCamera == Camera("mono", Rect(0, 0, 2, 2))
LeftCamera == Camera("left", Rect(0, 0, 1, 2))
RightCamera == Camera("right", Rect(1, 0, 1, 2))
HelperCamera == Camera("helper", Rect(0, 0, 1, 1))
Cameras == {MonoCamera, StereoCamera(LeftCamera, RightCamera)}

Dims == 1 .. MaxDim

\* the drawables of the helper overlays
HelperObjs ==
    [id \in {101, 102, 103, 104} |->
        IF id = 104
        THEN [Drawable(id) EXCEPT !.opaque = FALSE, !.alpha = One - 1,
                                  !.uAlpha = (One - 1) * One]
        ELSE Drawable(id)]

Helper(debug, handle, camera) ==
    [ debug |-> [isEnabled |-> debug, scene |-> Group("debug", <<101>>)],
      handle |-> [isEnabled |-> handle, scene |-> Group("handle", <<104, 102>>)],
      camera |-> [isEnabled |-> camera, scene |-> Group("camera", <<103>>),
                  camera |-> HelperCamera] ]

Helpers == {Helper(FALSE, FALSE, FALSE), Helper(TRUE, FALSE, FALSE),
            Helper(FALSE, TRUE, TRUE), Helper(TRUE, TRUE, TRUE)}

Scene(primitives, volumes) ==
    [primitives |-> Group("primitives", primitives), volumes |-> Group("volumes", volumes)]

\* objs as a function over the scene's ids and the helpers' ids
WithHelpers(sceneObjs) ==
    [id \in DOMAIN sceneObjs \cup DOMAIN HelperObjs |->
        IF id \in DOMAIN sceneObjs THEN sceneObjs[id] ELSE HelperObjs[id]]

Mesh(id, program) == [Drawable(id) EXCEPT !.program = program]

TransparentMesh(id, program, writeDepth) ==
    [Drawable(id) EXCEPT !.program = program, !.opaque = FALSE, !.alpha = One - 1,
                         !.uAlpha = (One - 1) * One, !.writeDepth = writeDepth]

PartlyTransparentMesh(id, program) ==
    [Drawable(id) EXCEPT !.program = program, !.opaque = FALSE,
                         !.transparencyAverage = One - 1]

Volume(id, program, mode) ==
    [Drawable(id) EXCEPT !.program = program, !.opaque = FALSE, !.dRenderMode = mode]

\* an opaque mesh, transparent meshes that do and do not write depth, a partly
\* transparent mesh and a direct volume; the opaque mesh and the depth-writing
\* one come after a transparent mesh that does not write depth
MixedScene ==
    [ objs |-> WithHelpers(<<Mesh(1, 1), TransparentMesh(2, 1, FALSE),
                             PartlyTransparentMesh(3, 2), Volume(4, 3, "volume"),
                             TransparentMesh(5, 2, TRUE)>>),
      scene |-> Scene(<<2, 1, 5, 3>>, <<4>>) ]

OpaqueScene ==
    [ objs |-> WithHelpers(<<Mesh(1, 1), Mesh(2, 2)>>),
      scene |-> Scene(<<1, 2>>, <<>>) ]

EmptyScene ==
    [ objs |-> WithHelpers(<<>>), scene |-> Scene(<<>>, <<>>) ]

DrawScenes == {MixedScene, OpaqueScene, EmptyScene}

---------------------------------------------------------------------------
(* The DrawPass and its renderer *)

Commit(c, theCall) ==
    /\ dp' = c.dp
    /\ gl' = c.gl
    /\ rnd' = c.rnd
    /\ objs' = c.objs
    /\ log' = c.log
    /\ call' = theCall
    /\ UNCHANGED <<scene, helper>>

InitWith(scenes, helpers, dims, enableWboits, depthTextureExts, wboitSupporteds) ==
    \E s \in scenes, h \in helpers, width \in dims, height \in dims,
       enableWboit \in enableWboits, depthTextureExt \in depthTextureExts,
       wboitSupported \in wboitSupporteds :
        /\ dp = DrawPassNew(width, height, enableWboit, depthTextureExt, wboitSupported)
        /\ gl = GLInit
        /\ rnd = RendererCreate(TRUE)
        /\ objs = s.objs
        /\ scene = s.scene
        /\ helper = h
        /\ log = <<>>
        /\ call = [op |-> "constructor", width |-> width, height |-> height]

\* The draw pass under resizes and frames
Init == InitWith({MixedScene}, {Helper(TRUE, TRUE, TRUE)}, Dims, BOOLEAN, BOOLEAN, BOOLEAN)

SetSize ==
    \E width \in Dims, height \in Dims :
        Commit(setSize(Ctx, width, height),
               [op |-> "setSize", width |-> width, height |-> height])

RenderWith(cameras, toDrawingBuffers, transparentBackgrounds) ==
    \E camera \in cameras, toDrawingBuffer \in toDrawingBuffers,
       transparentBackground \in transparentBackgrounds :
        Commit(render(Ctx, camera, scene, helper, toDrawingBuffer, transparentBackground),
               [op |-> "render", camera |-> camera, toDrawingBuffer |-> toDrawingBuffer,
                transparentBackground |-> transparentBackground])

RenderMono == RenderWith({MonoCamera}, BOOLEAN, {FALSE})

Next == SetSize \/ RenderMono

Spec == Init /\ [][Next]_vars

\* Frames of a draw pass of one size, over every scene, helper and camera
InitFrame == InitWith(DrawScenes, Helpers, {MaxDim}, BOOLEAN, BOOLEAN, BOOLEAN)

Render == RenderWith(Cameras, BOOLEAN, BOOLEAN)

SpecFrame == InitFrame /\ [][Render]_vars

---------------------------------------------------------------------------
(* WBOIT frames over every classification of one drawable *)

ClassifiedDrawables ==
    { [Drawable(1) EXCEPT !.visible = visible, !.alpha = alpha, !.alphaFactor = alphaFactor,
                          !.transparencyAverage = transparencyAverage,
                          !.dRenderMode = dRenderMode,
                          !.dPointFilledCircle = dPointFilledCircle,
                          !.dXrayShaded = dXrayShaded,
                          !.uBackgroundColor = uBackgroundColor] :
        visible \in BOOLEAN, alpha \in {One - 1, One},
        alphaFactor \in {One - 1, One, One + 1},
        transparencyAverage \in 0 .. One,
        dRenderMode \in {"undefined", "volume", "isosurface"},
        dPointFilledCircle \in BOOLEAN, dXrayShaded \in BOOLEAN,
        uBackgroundColor \in BOOLEAN }

\* the drawable is a primitive, or a volume when it has a render mode
ClassifiedScenes ==
    { [ objs |-> WithHelpers(<<r>>),
        scene |-> IF r.dRenderMode = "undefined"
                  THEN Scene(<<1>>, <<>>) ELSE Scene(<<>>, <<1>>) ] :
        r \in ClassifiedDrawables }

InitWboit ==
    InitWith(ClassifiedScenes, {Helper(FALSE, FALSE, FALSE)}, {MaxDim}, {TRUE}, {TRUE}, {TRUE})

RenderWboitFrame == RenderWith({MonoCamera}, BOOLEAN, {FALSE})

SpecWboit == InitWboit /\ [][RenderWboitFrame]_vars

---------------------------------------------------------------------------
(* The passes of the renderer over groups of drawables that share programs *)

RECURSIVE ProgramLists(_)
ProgramLists(n) ==
    IF n = 0 THEN {<<>>}
    ELSE LET shorter == ProgramLists(n - 1)
         IN  shorter \cup { Append(l, p) : l \in {x \in shorter : Len(x) = n - 1},
                                          p \in 1 .. NumPrograms }

\* drawable i uses program programs[i]; the drawables are all opaque, or all
\* transparent with every other one writing depth
ProgramScene(programs, transparent) ==
    [ objs |-> WithHelpers([i \in 1 .. Len(programs) |->
                              IF transparent
                              THEN TransparentMesh(i, programs[i], i % 2 = 1)
                              ELSE Mesh(i, programs[i])]),
      scene |-> Scene([i \in 1 .. Len(programs) |-> i], <<>>) ]

ProgramScenes ==
    { ProgramScene(programs, transparent) :
        programs \in ProgramLists(MaxGroup), transparent \in BOOLEAN }

InitRenderer ==
    InitWith(ProgramScenes, {Helper(FALSE, FALSE, FALSE)}, {MaxDim}, {FALSE}, {TRUE}, {FALSE})

DepthTextures == {"null", "depthTexture"}

PassCall(name, depthTexture) ==
    [op |-> name, group |-> scene.primitives.name, depthTexture |-> depthTexture]

RenderPick ==
    \E depthTexture \in DepthTextures :
        Commit(renderPick(Ctx, scene.primitives, MonoCamera, "pickObject", depthTexture),
               PassCall("renderPick", depthTexture))

RenderDepth ==
    \E depthTexture \in DepthTextures :
        Commit(renderDepth(Ctx, scene.primitives, MonoCamera, depthTexture),
               PassCall("renderDepth", depthTexture))

RenderBlended ==
    \E depthTexture \in DepthTextures :
        Commit(renderBlended(Ctx, scene.primitives, MonoCamera, depthTexture),
               PassCall("renderBlended", depthTexture))

RenderBlendedOpaque ==
    \E depthTexture \in DepthTextures :
        Commit(renderBlendedOpaque(Ctx, scene.primitives, MonoCamera, depthTexture),
               PassCall("renderBlendedOpaque", depthTexture))

RenderBlendedTransparent ==
    \E depthTexture \in DepthTextures :
        Commit(renderBlendedTransparent(Ctx, scene.primitives, MonoCamera, depthTexture),
               PassCall("renderBlendedTransparent", depthTexture))

RenderBlendedVolume ==
    \E depthTexture \in DepthTextures :
        Commit(renderBlendedVolume(Ctx, scene.primitives, MonoCamera, depthTexture),
               PassCall("renderBlendedVolume", depthTexture))

RenderWboitOpaque ==
    \E depthTexture \in DepthTextures :
        Commit(renderWboitOpaque(Ctx, scene.primitives, MonoCamera, depthTexture),
               PassCall("renderWboitOpaque", depthTexture))

RenderWboitTransparent ==
    \E depthTexture \in DepthTextures :
        Commit(renderWboitTransparent(Ctx, scene.primitives, MonoCamera, depthTexture),
               PassCall("renderWboitTransparent", depthTexture))

NextRenderer ==
    \/ RenderPick
    \/ RenderDepth
    \/ RenderBlended
    \/ RenderBlendedOpaque
    \/ RenderBlendedTransparent
    \/ RenderBlendedVolume
    \/ RenderWboitOpaque
    \/ RenderWboitTransparent

SpecRenderer == InitRenderer /\ [][NextRenderer]_vars

\* The render paths of a draw pass entered on their own, between frames
EnterRenderWboit ==
    \E camera \in {MonoCamera, LeftCamera}, toDrawingBuffer \in BOOLEAN :
        Commit(_renderWboit(Ctx, camera, scene, toDrawingBuffer),
               [op |-> "_renderWboit", camera |-> camera,
                toDrawingBuffer |-> toDrawingBuffer,
                error |-> _renderWboit(Ctx, camera, scene, toDrawingBuffer).error])

EnterRenderBlended ==
    \E camera \in {MonoCamera, LeftCamera}, toDrawingBuffer \in BOOLEAN :
        Commit(_renderBlended(Ctx, camera, scene, toDrawingBuffer),
               [op |-> "_renderBlended", camera |-> camera,
                toDrawingBuffer |-> toDrawingBuffer,
                error |-> _renderBlended(Ctx, camera, scene, toDrawingBuffer).error])

InitPaths ==
    InitWith({MixedScene, OpaqueScene}, {Helper(FALSE, FALSE, FALSE)}, {MaxDim},
             BOOLEAN, BOOLEAN, BOOLEAN)

NextPaths == EnterRenderWboit \/ EnterRenderBlended

SpecPaths == InitPaths /\ [][NextPaths]_vars

---------------------------------------------------------------------------
(* The passes of the renderer over drawables of every combination of flags *)

Defines == {"undefined", "true", "false"}

\* drawable 2 varies in the flags renderPick and renderObject test, or in the
\* defines the cull and winding state is chosen from
PickFlagDrawables ==
    { [Drawable(2) EXCEPT !.visible = visible, !.pickable = pickable,
                          !.colorOnly = colorOnly, !.opaque = opaque,
                          !.alpha = IF opaque THEN One ELSE One - 1,
                          !.uAlpha = (IF opaque THEN One ELSE One - 1) * One] :
        visible \in BOOLEAN, pickable \in BOOLEAN, colorOnly \in BOOLEAN,
        opaque \in BOOLEAN }

CullFlagDrawables ==
    { [Drawable(2) EXCEPT !.dDoubleSided = dDoubleSided, !.dFlipSided = dFlipSided,
                          !.hasReflection = hasReflection] :
        dDoubleSided \in Defines, dFlipSided \in Defines, hasReflection \in BOOLEAN }

\* drawable 1 is drawn before it: nothing, plain, single-sided and flipped,
\* double-sided and not flipped, invisible, or a direct volume
Predecessors ==
    { Mesh(1, 1),
      [Mesh(1, 1) EXCEPT !.dDoubleSided = "false", !.dFlipSided = "true"],
      [Mesh(1, 1) EXCEPT !.dDoubleSided = "true", !.dFlipSided = "false"],
      [Mesh(1, 1) EXCEPT !.visible = FALSE],
      Volume(1, 1, "volume") }

FlagScenes ==
    { [ objs |-> WithHelpers(<<first, second>>), scene |-> Scene(<<1, 2>>, <<>>) ] :
        first \in Predecessors, second \in PickFlagDrawables \cup CullFlagDrawables }
    \cup
    { [ objs |-> WithHelpers(<<Mesh(1, 1), second>>), scene |-> Scene(<<2>>, <<>>) ] :
        second \in PickFlagDrawables \cup CullFlagDrawables }

InitFlags ==
    InitWith(FlagScenes, {Helper(FALSE, FALSE, FALSE)}, {MaxDim}, {FALSE}, {TRUE}, {FALSE})

\* renderPick with each variant of the render items
RenderPickVariant ==
    \E variant \in Variants :
        Commit(renderPick(Ctx, scene.primitives, MonoCamera, variant, "null"),
               [op |-> "renderPick", group |-> scene.primitives.name,
                variant |-> variant])

NextFlags ==
    \/ RenderPickVariant
    \/ RenderDepth
    \/ RenderBlended
    \/ RenderBlendedVolume
    \/ RenderWboitOpaque
    \/ RenderWboitTransparent

SpecFlags == InitFlags /\ [][NextFlags]_vars

---------------------------------------------------------------------------
(* The passes of the renderer over groups that hold direct volumes *)

\* r.state.opaque and r.state.writeDepth of the drawables of a group
DepthKinds == {<<TRUE, FALSE>>, <<FALSE, TRUE>>, <<FALSE, FALSE>>}

\* alpha of the values and alphaFactor of the state of a direct volume
VolumeAlphas == {<<One, One>>, <<One, One - 1>>, <<One - 1, One>>}

\* a direct volume; uAlpha is the value the drawable was created with, the
\* alpha factor of its state was set since
VolumeDrawables(id, alphas) ==
    { [Drawable(id) EXCEPT !.dRenderMode = mode, !.alpha = alpha[1],
                           !.uAlpha = alpha[1] * One, !.alphaFactor = alpha[2],
                           !.opaque = kind[1], !.writeDepth = kind[2]] :
        mode \in {"volume", "isosurface"}, alpha \in alphas, kind \in DepthKinds }

MeshDrawables(id) ==
    { [Drawable(id) EXCEPT !.opaque = kind[1], !.writeDepth = kind[2],
                           !.alpha = IF kind[1] THEN One ELSE One - 1,
                           !.uAlpha = (IF kind[1] THEN One ELSE One - 1) * One] :
        kind \in DepthKinds }

\* a direct volume before or after an ordinary drawable
VolumeScenes ==
    { [ objs |-> WithHelpers(<<first, second>>), scene |-> Scene(<<1, 2>>, <<>>) ] :
        first \in VolumeDrawables(1, VolumeAlphas), second \in MeshDrawables(2) }
    \cup
    { [ objs |-> WithHelpers(<<first, second>>), scene |-> Scene(<<1, 2>>, <<>>) ] :
        first \in MeshDrawables(1), second \in VolumeDrawables(2, {<<One, One>>}) }

InitVolumes ==
    \E s \in VolumeScenes, fragDepth \in BOOLEAN :
        /\ dp = DrawPassNew(MaxDim, MaxDim, FALSE, TRUE, FALSE)
        /\ gl = GLInit
        /\ rnd = RendererCreate(fragDepth)
        /\ objs = s.objs
        /\ scene = s.scene
        /\ helper = Helper(FALSE, FALSE, FALSE)
        /\ log = <<>>
        /\ call = [op |-> "create", fragDepth |-> fragDepth]

NextVolumes ==
    \/ RenderPickVariant
    \/ RenderDepth
    \/ RenderBlendedOpaque
    \/ RenderBlendedTransparent
    \/ RenderBlendedVolume
    \/ RenderWboitOpaque
    \/ RenderWboitTransparent

SpecVolumes == InitVolumes /\ [][NextVolumes]_vars

---------------------------------------------------------------------------
(* renderBlended over groups of every combination of the state flags it tests *)

\* groups of three drawables of every combination of r.state.visible,
\* r.state.opaque and r.state.writeDepth
BlendedScenes ==
    LET BlendedDrawables(id) ==
            { [Drawable(id) EXCEPT !.visible = visible, !.opaque = opaque,
                                   !.writeDepth = writeDepth,
                                   !.alpha = IF opaque THEN One ELSE One - 1,
                                   !.uAlpha = (IF opaque THEN One ELSE One - 1) * One] :
                visible \in BOOLEAN, opaque \in BOOLEAN, writeDepth \in BOOLEAN }
    IN  { [ objs |-> WithHelpers(<<first, second, third>>),
            scene |-> Scene(<<1, 2, 3>>, <<>>) ] :
            first \in BlendedDrawables(1), second \in BlendedDrawables(2),
            third \in BlendedDrawables(3) }

NextBlended ==
    \/ RenderBlended
    \/ RenderBlendedOpaque
    \/ RenderBlendedTransparent

SpecBlended ==
    /\ InitWith(BlendedScenes, {Helper(FALSE, FALSE, FALSE)}, {MaxDim}, {FALSE}, {TRUE}, {FALSE})
    /\ [][NextBlended]_vars

---------------------------------------------------------------------------
(* A renderer under changes of its configuration, viewport and buffer size *)

White == FromNormalizedRgb(10, 10, 10)

PlaneObject ==
    [ type |-> "plane", position |-> <<0, 0, 0>>,
      rotation |-> [axis |-> <<1, 0, 0>>, angle |-> 0], scale |-> <<1, 1, 1>> ]

SphereObject ==
    [ type |-> "sphere", position |-> <<1, 2, 3>>,
      rotation |-> [axis |-> <<0, 1, 0>>, angle |-> 180], scale |-> <<2, 2, 2>> ]

\* a clip configuration of n copies of an object
ClipConfig(variant, n, object) ==
    [variant |-> variant, objects |-> [i \in 1 .. n |-> object]]

ClipConfigs ==
    {ClipConfig("instance", n, PlaneObject) : n \in {0, 1, ClipCapacity, MaxClipObjects}}
    \cup {ClipConfig("pixel", 1, SphereObject)}

\* the values each key of the configuration is set to
PropValues(key) ==
    CASE key = "backgroundColor" -> {0, White}
      [] key = "pickingAlphaThreshold" -> {5, 7}
      [] key = "interiorDarkening" -> {5, 0}
      [] key = "interiorColorFlag" -> BOOLEAN
      [] key = "interiorColor" -> {FromNormalizedRgb(3, 3, 3), 0}
      [] key = "highlightColor" -> {FromNormalizedRgb(10, 4, 6), White}
      [] key = "selectColor" -> {FromNormalizedRgb(2, 10, 1), 0}
      [] key = "style" -> {Style("matte"), Style("flat"),
                           CustomStyle(StyleValues(6, 4, 0, 10, 5)),
                           CustomStyle(StyleValues(3, 3, 3, 3, 3))}
      [] key = "clip" -> ClipConfigs

\* a non-default configuration of three keys
ThreeProps ==
    [ backgroundColor |-> White,
      style |-> CustomStyle(StyleValues(3, 3, 3, 3, 3)),
      clip |-> ClipConfig("pixel", 1, SphereObject) ]

\* the partial configurations given to Renderer.create and setProps
\* a partial configuration of one key
OneProp(key, value) == [k \in {key} |-> value]

Partials ==
    UNION {{OneProp(key, value) : value \in PropValues(key)} : key \in DOMAIN DefaultProps}
    \cup {NoProps, ThreeProps}

InitialProps == {NoProps, ThreeProps, [clip |-> ClipConfig("instance", MaxClipObjects, PlaneObject)]}

Viewports == {Rect(0, 0, 0, 0), Rect(0, 0, MaxDim, MaxDim)}

InitProps ==
    \E initial \in InitialProps :
        /\ dp = DrawPassNew(MaxDim, MaxDim, FALSE, TRUE, FALSE)
        /\ gl = GLInit
        /\ rnd = RendererCreateWith(TRUE, initial)
        /\ objs = EmptyScene.objs
        /\ scene = EmptyScene.scene
        /\ helper = Helper(FALSE, FALSE, FALSE)
        /\ log = <<>>
        /\ call = [op |-> "create", props |-> initial, n |-> 0]

SetProps ==
    \E partial \in Partials :
        /\ call.n < MaxCalls
        /\ Commit(setProps(Ctx, partial),
                  [op |-> "setProps", props |-> partial, n |-> call.n + 1])

SetViewport ==
    \E viewport \in Viewports :
        /\ call.n < MaxCalls
        /\ Commit(setViewport(Ctx, viewport.x, viewport.y, viewport.width, viewport.height),
                  [op |-> "setViewport", viewport |-> viewport, n |-> call.n + 1])

SetDrawingBufferSize ==
    \E width \in {0, MaxDim}, height \in {0, MaxDim} :
        /\ call.n < MaxCalls
        /\ Commit(setDrawingBufferSize(Ctx, width, height),
                  [op |-> "setDrawingBufferSize", width |-> width, height |-> height,
                   n |-> call.n + 1])

NextProps == SetProps \/ SetViewport \/ SetDrawingBufferSize

SpecProps == InitProps /\ [][NextProps]_vars

\* The passes of a renderer whose clip configuration changes, over a
\* clipped opaque mesh, a transparent mesh that opts out of clipping with a
\* stale clip count, a clipped transparent mesh and an invisible clipped mesh
ClipScene ==
    [ objs |-> WithHelpers(<<Mesh(1, 1),
                             [TransparentMesh(2, 1, FALSE) EXCEPT !.noClip = TRUE,
                                                                  !.dClipObjectCount = 1,
                                                                  !.dClipVariant = "pixel"],
                             TransparentMesh(3, 2, TRUE),
                             [Mesh(4, 2) EXCEPT !.visible = FALSE]>>),
      scene |-> Scene(<<1, 2, 3, 4>>, <<>>) ]

InitClip ==
    \E initial \in {NoProps, ThreeProps} :
        /\ dp = DrawPassNew(MaxDim, MaxDim, FALSE, TRUE, FALSE)
        /\ gl = GLInit
        /\ rnd = RendererCreateWith(TRUE, initial)
        /\ objs = ClipScene.objs
        /\ scene = ClipScene.scene
        /\ helper = Helper(FALSE, FALSE, FALSE)
        /\ log = <<>>
        /\ call = [op |-> "create", props |-> initial, n |-> 0]

\* the call records whether it changed the clip count
SetClip ==
    \E clip \in ClipConfigs :
        Commit(setProps(Ctx, OneProp("clip", clip)),
               [op |-> "setProps", props |-> OneProp("clip", clip),
                countChanged |-> Len(clip.objects) # rnd.clip.objects.count])

\* the call records whether it follows a setProps that changed the clip count
DrawClipped ==
    \E pass \in {"renderDepth", "renderBlended"} :
        Commit(IF pass = "renderDepth"
               THEN renderDepth(Ctx, scene.primitives, MonoCamera, "null")
               ELSE renderBlended(Ctx, scene.primitives, MonoCamera, "null"),
               [op |-> pass, group |-> scene.primitives.name,
                afterCountChange |-> call.op = "setProps" /\ call.countChanged])

NextClip == SetClip \/ DrawClipped

SpecClip == InitClip /\ [][NextClip]_vars

---------------------------------------------------------------------------
(* Reading the command log *)

\* the ids of a group's drawables
Ids(group) == {group.renderables[i] : i \in DOMAIN group.renderables}

SceneIds == Ids(scene.primitives) \cup Ids(scene.volumes)

\* the drawables a pass handed to renderObject, and those it drew
DispatchedBy(name) ==
    {log[i].id : i \in {j \in DOMAIN log : log[j].op = "renderObject" /\ log[j].pass = name}}

DrawnBy(name) ==
    {log[i].id : i \in {j \in DOMAIN log : log[j].op = "draw" /\ log[j].pass = name}}

\* the four sizes setSize maintains
TargetSizes ==
    { Size(dp.colorTarget.width, dp.colorTarget.height),
      dp.textures["colorTarget.texture"],
      Size(dp.depthTarget.width, dp.depthTarget.height),
      dp.textures["depthTexture"],
      dp.textures["depthTexturePrimitives"],
      dp.textures["depthTextureVolumes"] }
      \cup (IF dp.depthTargetPrimitives.present
            THEN {Size(dp.depthTargetPrimitives.width, dp.depthTargetPrimitives.height)}
            ELSE {})
      \cup (IF dp.depthTargetVolumes.present
            THEN {Size(dp.depthTargetVolumes.width, dp.depthTargetVolumes.height)}
            ELSE {})

---------------------------------------------------------------------------
(* DrawPass.setSize *)

\* C1: after construction and after any sequence of setSize calls, the color
\* target, the depth target and the primitives and volumes depth textures
\* (the packed-depth targets when present) all have one size, and when
\* setSize(w, h) or the constructor has returned that size is (w, h).
C1_TargetsSized ==
    /\ Cardinality(TargetSizes) = 1
    /\ call.op \in {"constructor", "setSize"} => TargetSizes = {Size(call.width, call.height)}

\* a setSize that resized, with and without packed depth, to a non-square size
C1_Resized ==
    /\ call.op = "setSize"
    /\ log # <<>>
    /\ call.width # call.height
    /\ TargetSizes = {Size(call.width, call.height)}

\* C2: setSize(w, h) called with the current width and height of the color
\* target changes nothing and issues no command (no resize, no define, no
\* uTexSize update, no wboit resize), so that a second setSize(w, h) leaves
\* the state of the first.
C2_SetSizeUnchangedIsNoOp ==
    [][ /\ (/\ call'.op = "setSize"
            /\ call'.width = dp.colorTarget.width
            /\ call'.height = dp.colorTarget.height)
           => /\ log' = <<>>
              /\ UNCHANGED <<dp, gl, rnd, objs, scene, helper>>
        /\ call'.op = "setSize"
           => setSize(Ctx', call'.width, call'.height) = Ctx' ]_vars

\* setSize has returned without a command after an earlier resize
C2_NoOpTaken ==
    /\ call.op = "setSize"
    /\ log = <<>>
    /\ dp.colorTarget.width = call.width
    /\ dp.colorTarget.height = call.height
    /\ dp.colorTarget.width # dp.colorTarget.height

---------------------------------------------------------------------------
(* The selections of renderWboitOpaque and renderWboitTransparent *)

WboitOpaque == "renderWboitOpaque"
WboitTransparent == "renderWboitTransparent"

\* alpha == 1, not volumetric, no filled circle, no x-ray shading
SolidShape(r) ==
    /\ clamp(r.alpha * r.alphaFactor, 0, OneSq) = OneSq
    /\ r.dRenderMode # "volume"
    /\ ~r.dPointFilledCircle
    /\ ~r.dXrayShaded

\* C3 (as stated): no drawable is drawn both by renderWboitOpaque and by
\* renderWboitTransparent for its group, and a drawable with alpha == 1 that
\* is not volumetric, no filled circle, not x-ray shaded and of zero average
\* transparency is drawn by renderWboitOpaque and never by
\* renderWboitTransparent.
C3_Exclusive ==
    call.op = "render" =>
        \A id \in SceneIds :
            /\ ~(id \in DrawnBy(WboitOpaque) /\ id \in DrawnBy(WboitTransparent))
            /\ (objs[id].visible /\ SolidShape(objs[id]) /\ objs[id].transparencyAverage = 0)
               => id \in DrawnBy(WboitOpaque) /\ id \notin DrawnBy(WboitTransparent)

\* C3 (amended): a drawable is drawn by both renderWboitOpaque and
\* renderWboitTransparent exactly when it is visible, has alpha == 1, is not
\* volumetric, no filled circle and not x-ray shaded, its average
\* transparency is not 1, and its average transparency is above 0 or it has
\* a background-color override.  With zero average transparency and no
\* override such a drawable is drawn by renderWboitOpaque only.
C3_BothExactlyWhenPartlyTransparent ==
    call.op = "render" =>
        \A id \in SceneIds :
            /\ (id \in DrawnBy(WboitOpaque) /\ id \in DrawnBy(WboitTransparent))
               <=> /\ objs[id].visible
                   /\ SolidShape(objs[id])
                   /\ objs[id].transparencyAverage # One
                   /\ objs[id].transparencyAverage > 0 \/ objs[id].uBackgroundColor
            /\ (/\ objs[id].visible
                /\ SolidShape(objs[id])
                /\ objs[id].transparencyAverage = 0
                /\ ~objs[id].uBackgroundColor)
               => id \in DrawnBy(WboitOpaque) /\ id \notin DrawnBy(WboitTransparent)

\* a partly transparent mesh without override drawn by both passes of a frame
C3_DrawnByBoth ==
    /\ call.op = "render"
    /\ \E id \in SceneIds :
        /\ id \in DrawnBy(WboitOpaque)
        /\ id \in DrawnBy(WboitTransparent)
        /\ objs[id].transparencyAverage \in 1 .. One - 1
        /\ ~objs[id].uBackgroundColor

\* C4 (as stated): renderWboitOpaque hands a drawable to renderObject iff
\* alpha == 1 and its average transparency is 0 and it is not volumetric,
\* no filled circle and not x-ray shaded.
C4_OpaqueIffZeroAverage ==
    call.op = "render" =>
        \A id \in SceneIds :
            id \in DispatchedBy(WboitOpaque)
            <=> SolidShape(objs[id]) /\ objs[id].transparencyAverage = 0

\* C4 (amended): renderWboitOpaque hands a drawable to renderObject iff
\* alpha == 1 and its average transparency is not 1 and it is not
\* volumetric, no filled circle and not x-ray shaded.
C4_OpaqueIffNotFullyTransparent ==
    call.op = "render" =>
        \A id \in SceneIds :
            id \in DispatchedBy(WboitOpaque)
            <=> SolidShape(objs[id]) /\ objs[id].transparencyAverage # One

\* renderWboitOpaque dispatched a drawable of average transparency 1/AlphaDen
\* whose alpha is clamped to 1
C4_OpaqueDispatched ==
    /\ call.op = "render"
    /\ \E id \in SceneIds :
        /\ id \in DispatchedBy(WboitOpaque)
        /\ objs[id].transparencyAverage = 1
        /\ objs[id].alphaFactor > One

\* C5: a drawable of render mode 'volume' is handed to renderObject by
\* renderWboitTransparent and never by renderWboitOpaque, whatever its alpha
\* and its other flags.
C5_VolumeIsTransparent ==
    call.op = "render" =>
        \A id \in SceneIds :
            objs[id].dRenderMode = "volume"
            => id \in DispatchedBy(WboitTransparent) /\ id \notin DispatchedBy(WboitOpaque)

\* a volume of alpha 1 and no other flag went through a frame
C5_OpaqueVolumeDispatched ==
    /\ call.op = "render"
    /\ \E id \in SceneIds :
        /\ objs[id].dRenderMode = "volume"
        /\ objs[id].alpha * objs[id].alphaFactor = OneSq
        /\ objs[id].transparencyAverage = 0
        /\ ~objs[id].dPointFilledCircle /\ ~objs[id].dXrayShaded /\ ~objs[id].uBackgroundColor
        /\ id \in DrawnBy(WboitTransparent)

---------------------------------------------------------------------------
(* The single-eye sequences of a frame *)

\* the positions of the log where a single-eye sequence starts
EyeStartSeq == SelectSeq([i \in DOMAIN log |-> i], LAMBDA i : log[i].op = "_render")

\* the commands of the k-th single-eye sequence
EyeLog(k) ==
    SubSeq(log, EyeStartSeq[k],
           IF k < Len(EyeStartSeq) THEN EyeStartSeq[k + 1] - 1 ELSE Len(log))

EyeCount == Len(EyeStartSeq)

Destination(toDrawingBuffer) == IF toDrawingBuffer THEN "drawingBuffer" ELSE "colorTarget"

SceneGroups == {"primitives", "volumes"}

\* what an entry of the log says about the order of the frame
Tag(e) ==
    IF e.op = "pass"
    THEN <<e.op, e.name, e.group, e.depthTexture, e.fb>>
    ELSE <<e.op, e.fb>>

Tags(entries) == [i \in DOMAIN entries |-> Tag(entries[i])]

ScenePass(e) == e.op = "pass" /\ e.group \in SceneGroups

\* C6: render with a stereo camera runs the single-eye sequence exactly
\* twice, first with the left and then with the right camera, both with the
\* scene, helper and toDrawingBuffer of the call and both against the same
\* destination; with any other camera it runs the sequence exactly once.
C6_EyesOfAFrame ==
    call.op = "render" =>
        LET expected == IF StereoCameraIs(call.camera)
                        THEN <<"left", "right">>
                        ELSE <<call.camera.id>>
        IN  /\ EyeCount = Len(expected)
            /\ \A k \in 1 .. EyeCount :
                LET eye == EyeLog(k)
                    binds == SelectSeq(eye, LAMBDA e : e.op = "bind")
                IN  /\ eye[1].camera = expected[k]
                    /\ eye[1].scene = scene
                    /\ eye[1].helper = helper
                    /\ eye[1].toDrawingBuffer = call.toDrawingBuffer
                    /\ binds # <<>>
                    /\ binds[1].fb = Destination(call.toDrawingBuffer)
                    /\ eye[Len(eye)].op = "gl.flush"
                    /\ eye[Len(eye)].fb = Destination(call.toDrawingBuffer)

\* a stereo frame of the mixed scene into the color target, every helper on
C6_StereoFrame ==
    /\ call.op = "render"
    /\ StereoCameraIs(call.camera)
    /\ ~call.toDrawingBuffer
    /\ EyeCount = 2
    /\ helper.debug.isEnabled /\ helper.camera.isEnabled
    /\ Len(scene.volumes.renderables) > 0

---------------------------------------------------------------------------
(* Uploads of the global uniforms *)

PassStartSeq == SelectSeq([i \in DOMAIN log |-> i], LAMBDA i : log[i].op = "pass")

\* the commands of the k-th pass of the log
PassLog(k) ==
    SubSeq(log, PassStartSeq[k],
           IF k < Len(PassStartSeq) THEN PassStartSeq[k + 1] - 1 ELSE Len(log))

Draws(entries) == SelectSeq(entries, LAMBDA e : e.op = "draw")

Uploads(entries) == Len(SelectSeq(entries, LAMBDA e : e.op = "program.setUniforms"))

\* the number of distinct programs of the draws
DistinctPrograms(draws) == Cardinality({draws[i].program : i \in DOMAIN draws})

\* the number of draws whose program differs from that of the draw before
ProgramChanges(draws) ==
    Cardinality({i \in DOMAIN draws : i = 1 \/ draws[i].program # draws[i - 1].program})

\* C7 (as stated): a pass over N visible drawables sharing M <= N programs
\* uploads the global uniforms exactly M times.
C7_UploadsPerProgram ==
    \A k \in 1 .. Len(PassStartSeq) :
        Uploads(PassLog(k)) = DistinctPrograms(Draws(PassLog(k)))

\* C7 (amended): a pass uploads the global uniforms once for its first draw
\* and once for every draw whose program differs from that of the draw
\* before it: at least M and at most N times, and M times when the drawables
\* that share a program are drawn one after the other.
C7_UploadsPerProgramChange ==
    \A k \in 1 .. Len(PassStartSeq) :
        LET draws == Draws(PassLog(k))
        IN  /\ Uploads(PassLog(k)) = ProgramChanges(draws)
            /\ DistinctPrograms(draws) <= Uploads(PassLog(k))
            /\ Uploads(PassLog(k)) <= Len(draws)

\* a pass drew with programs A, B, A and uploaded three times for two programs
C7_ProgramRevisited ==
    \E k \in 1 .. Len(PassStartSeq) :
        /\ Len(Draws(PassLog(k))) = 3
        /\ DistinctPrograms(Draws(PassLog(k))) = 2
        /\ Uploads(PassLog(k)) = 3

---------------------------------------------------------------------------
(* The order of the passes of a single-eye sequence *)

\* the positions of a sequence of commands that satisfy a condition
Where(entries, Test(_)) == {i \in DOMAIN entries : Test(entries[i])}

Before(earlier, later) == \A i \in earlier, j \in later : i < j

\* C8: in every single-eye sequence of either path, the depth merge runs
\* after a pass of that sequence has written the primitives depth and one
\* has written the volumes depth it consumes (and none writes them later),
\* every transparent pass over the scene runs after every opaque pass over
\* the scene, and wboit.render runs after renderWboitTransparent has run
\* for the primitives and for the volumes.
C8_PassesFollowDependencies ==
    call.op = "render" =>
        \A k \in 1 .. EyeCount :
            LET eye == EyeLog(k)
                merges == Where(eye, LAMBDA e : e.op = "depthMerge.render")
                resolves == Where(eye, LAMBDA e : e.op = "wboit.render")
                writers(texture, group) ==
                    Where(eye, LAMBDA e : e.op = "pass" /\ e.group = group
                                          /\ e.writes = texture)
                passes(names, groups) ==
                    Where(eye, LAMBDA e : e.op = "pass" /\ e.group \in groups
                                          /\ e.name \in names)
                opaques == passes({"renderBlendedOpaque", "renderWboitOpaque"}, SceneGroups)
                transparents == passes({"renderBlendedTransparent", "renderBlendedVolume",
                                        "renderWboitTransparent"}, SceneGroups)
            IN  /\ (wboitEnabled(dp) \/ ~call.toDrawingBuffer) => Cardinality(merges) = 1
                /\ wboitEnabled(dp) => Cardinality(resolves) = 1
                /\ merges # {} =>
                    /\ writers(dp.depthMerge.tDepthPrimitives, "primitives") # {}
                    /\ writers(dp.depthMerge.tDepthVolumes, "volumes") # {}
                    /\ Before(writers(dp.depthMerge.tDepthPrimitives, "primitives"), merges)
                    /\ Before(writers(dp.depthMerge.tDepthVolumes, "volumes"), merges)
                /\ opaques # {}
                /\ transparents # {}
                /\ Before(opaques, transparents)
                /\ resolves # {} =>
                    /\ passes({"renderWboitTransparent"}, {"primitives"}) # {}
                    /\ passes({"renderWboitTransparent"}, {"volumes"}) # {}
                    /\ Before(passes({"renderWboitTransparent"}, SceneGroups), resolves)

\* a stereo frame without native depth textures merged the depths of two eyes
C8_PackedDepthMerged ==
    /\ call.op = "render"
    /\ dp.packedDepth
    /\ ~wboitEnabled(dp)
    /\ Cardinality({i \in DOMAIN log : log[i].op = "depthMerge.render"}) = 2
    /\ \E i \in DOMAIN log : log[i].op = "draw" /\ log[i].group = "volumes"
                             /\ log[i].pass = "renderDepth"

\* the commands of the scene's path that C9 orders
WboitStep(e) ==
    \/ e.op \in {"bind", "clear", "clearDepth", "depthMerge.render", "wboit.render"}
    \/ ScenePass(e)

WboitOrder(destination) ==
    << <<"bind", destination>>,
       <<"clear", destination>>,
       <<"bind", destination>>,
       <<"pass", "renderWboitOpaque", "primitives", "null", destination>>,
       <<"bind", destination>>,
       <<"clearDepth", destination>>,
       <<"pass", "renderWboitOpaque", "volumes", "depthTexturePrimitives", destination>>,
       <<"bind", "depthTarget">>,
       <<"depthMerge.render", "depthTarget">>,
       <<"bind", "wboit">>,
       <<"pass", "renderWboitTransparent", "primitives", "depthTexture", "wboit">>,
       <<"pass", "renderWboitTransparent", "volumes", "depthTexture", "wboit">>,
       <<"bind", destination>>,
       <<"wboit.render", destination>> >>

\* C9: with the order-independent path enabled every single-eye sequence
\* issues, in this order: the clear of the destination,
\* renderWboitOpaque(primitives) without depth texture, the depth-buffer
\* clear, renderWboitOpaque(volumes) with the primitives depth texture, the
\* depth merge, the bind of the WBOIT target, renderWboitTransparent of the
\* primitives and then of the volumes with the merged depth texture, the
\* bind of the destination and wboit.render.
C9_WboitPathOrder ==
    (call.op = "render" /\ wboitEnabled(dp)) =>
        \A k \in 1 .. EyeCount :
            Tags(SelectSeq(EyeLog(k), WboitStep)) = WboitOrder(Destination(call.toDrawingBuffer))

\* a stereo WBOIT frame into the drawing buffer resolved both eyes
C9_WboitStereoFrame ==
    /\ call.op = "render"
    /\ wboitEnabled(dp)
    /\ call.toDrawingBuffer
    /\ Cardinality({i \in DOMAIN log : log[i].op = "wboit.render"}) = 2
    /\ \E i \in DOMAIN log : log[i].op = "draw" /\ log[i].pass = "renderWboitTransparent"

\* the commands of the scene's path that C10 orders
BlendedStep(e) ==
    \/ e.op = "clear" /\ e.toBackgroundColor
    \/ e.op = "depthMerge.render"
    \/ ScenePass(e) /\ e.name \in {"renderBlendedOpaque", "renderBlendedVolume",
                                    "renderBlendedTransparent"}

BlendedOpaquePrimitives(destination) ==
    <<"pass", "renderBlendedOpaque", "primitives", "null", destination>>

BlendedVolumes(destination) ==
    <<"pass", "renderBlendedVolume", "volumes", "depthTexturePrimitives", destination>>

BlendedTransparentPrimitives(destination) ==
    <<"pass", "renderBlendedTransparent", "primitives", "null", destination>>

\* C10 (as stated): in the blended path every single-eye sequence clears,
\* renders the opaque primitives, the volumes blended against the
\* primitives' depth and the transparent primitives, whatever its
\* destination; the depth merge follows iff it is not the drawing buffer.
C10_VolumesInEveryFrame ==
    (call.op = "render" /\ ~wboitEnabled(dp)) =>
        \A k \in 1 .. EyeCount :
            LET destination == Destination(call.toDrawingBuffer)
                path == << <<"clear", destination>>,
                           BlendedOpaquePrimitives(destination),
                           BlendedVolumes(destination),
                           BlendedTransparentPrimitives(destination) >>
            IN  Tags(SelectSeq(EyeLog(k), BlendedStep)) =
                    IF call.toDrawingBuffer
                    THEN path
                    ELSE Append(path, <<"depthMerge.render", "depthTarget">>)

\* C10 (amended): in the blended path every single-eye sequence clears,
\* renders the opaque primitives and, last of the scene, the transparent
\* primitives.  A sequence into the color target renders the volumes blended
\* against the primitives' depth between the two and merges the depths
\* afterwards; a sequence into the drawing buffer renders no volumes and
\* merges no depths.
C10_VolumesUnlessDrawingBuffer ==
    (call.op = "render" /\ ~wboitEnabled(dp)) =>
        \A k \in 1 .. EyeCount :
            LET destination == Destination(call.toDrawingBuffer)
            IN  Tags(SelectSeq(EyeLog(k), BlendedStep)) =
                    IF call.toDrawingBuffer
                    THEN << <<"clear", destination>>,
                            BlendedOpaquePrimitives(destination),
                            BlendedTransparentPrimitives(destination) >>
                    ELSE << <<"clear", destination>>,
                            BlendedOpaquePrimitives(destination),
                            BlendedVolumes(destination),
                            BlendedTransparentPrimitives(destination),
                            <<"depthMerge.render", "depthTarget">> >>

\* a blended frame of a scene with a volume went into the drawing buffer
C10_BlendedToDrawingBuffer ==
    /\ call.op = "render"
    /\ ~wboitEnabled(dp)
    /\ call.toDrawingBuffer
    /\ Len(scene.volumes.renderables) > 0
    /\ \A i \in DOMAIN log : log[i].op = "pass" => log[i].name # "renderBlendedVolume"
    /\ \E i \in DOMAIN log : log[i].op = "draw" /\ log[i].pass = "renderBlendedTransparent"
                             /\ log[i].group = "primitives"

---------------------------------------------------------------------------
(* The draw order of the blended passes *)

\* the positions of the draws of an eye's commands into a group
DrawsInto(eye, group) == {i \in DOMAIN eye : eye[i].op = "draw" /\ eye[i].group = group}

\* C11: renderBlended and the blended path draw the opaque drawables of a
\* group before its transparent ones; renderBlendedTransparent draws the
\* depth-writing transparent drawables, with depth mask true, before those
\* that do not write depth, which it draws with depth mask false.
C11_OpaqueThenTransparent ==
    call.op = "render" =>
        \A k \in 1 .. EyeCount :
            LET eye == EyeLog(k)
                blended(group) == {i \in DrawsInto(eye, group) : eye[i].variant = "colorBlended"}
                transparent(group) ==
                    {i \in blended(group) : eye[i].pass = "renderBlendedTransparent"}
            IN  \A group \in {"primitives", "debug", "handle", "camera"} :
                    /\ \A i \in blended(group), j \in blended(group) :
                        (objs[eye[i].id].opaque /\ ~objs[eye[j].id].opaque) => i < j
                    /\ \A i \in blended(group) :
                        ~objs[eye[i].id].opaque <=> i \in transparent(group)
                    /\ \A i \in transparent(group), j \in transparent(group) :
                        (objs[eye[i].id].writeDepth /\ ~objs[eye[j].id].writeDepth) => i < j
                    /\ \A i \in transparent(group) :
                        eye[i].state.depthMask = objs[eye[i].id].writeDepth

\* a blended frame drew an opaque mesh, then a depth-writing transparent mesh,
\* then a transparent mesh that precedes both in the group
C11_MixedGroupDrawn ==
    /\ call.op = "render"
    /\ ~wboitEnabled(dp)
    /\ \E i, j, k \in DOMAIN log :
        /\ i < j /\ j < k
        /\ log[i].op = "draw" /\ log[i].id = 1 /\ log[i].pass = "renderBlendedOpaque"
        /\ log[j].op = "draw" /\ log[j].id = 5 /\ log[j].state.depthMask
        /\ log[k].op = "draw" /\ log[k].id = 2 /\ ~log[k].state.depthMask
    /\ \E i, j \in DOMAIN log :
        /\ i < j
        /\ log[i].op = "draw" /\ log[i].id = 102
        /\ log[j].op = "draw" /\ log[j].id = 104

---------------------------------------------------------------------------
(* The configuration of the renderer *)

ConfigurationKeys == DOMAIN DefaultProps

\* the positions of the log where a global uniform is written
UniformUpdates == {i \in DOMAIN log : log[i].op = "ValueCell.update"}

\* C12: after setProps of a partial configuration, props holds the value
\* given for every key of the partial configuration and the value it held
\* before for every other key.
C12_SetPropsRoundTrip ==
    [][ call'.op = "setProps" =>
            \A key \in ConfigurationKeys :
                props(Ctx')[key] = IF Defined(call'.props, key)
                                   THEN call'.props[key]
                                   ELSE props(Ctx)[key] ]_vars

\* setProps of three keys changed them and kept the other six
C12_ThreeKeysSet ==
    /\ call.op = "setProps"
    /\ call.props = ThreeProps
    /\ Cardinality(UniformUpdates) > 3
    /\ props(Ctx).backgroundColor = White
    /\ props(Ctx).clip.variant = "pixel"
    /\ props(Ctx).interiorColorFlag # DefaultProps.interiorColorFlag

\* C13: setProps with values equal to the current ones (for every key, the
\* style and an equal clip configuration included), setViewport with the
\* current rectangle and setDrawingBufferSize with the current size write no
\* global uniform.
C13_UnchangedValuesWriteNothing ==
    [][ ( \/ /\ call'.op = "setProps"
             /\ \A key \in DOMAIN call'.props : call'.props[key] = rnd.p[key]
          \/ /\ call'.op = "setViewport"
             /\ call'.viewport = rnd.viewport
          \/ /\ call'.op = "setDrawingBufferSize"
             /\ <<call'.width, call'.height>> = rnd.drawingBufferSize )
        => /\ \A i \in DOMAIN log' : log'[i].op # "ValueCell.update"
           /\ rnd'.u = rnd.u ]_vars

\* setProps repeated a non-default configuration with a custom style and clip
\* objects, and wrote nothing
C13_RepeatedConfiguration ==
    /\ call.op = "setProps"
    /\ call.props = ThreeProps
    /\ rnd.p.style = ThreeProps.style
    /\ call.n = 2
    /\ log = <<>>

\* C17: the clip object count is at most the capacity 5 and the type,
\* position, rotation and scale arrays keep the lengths 5, 15, 20 and 15.
C17_ClipWithinCapacity ==
    /\ rnd.clip.objects.count <= ClipCapacity
    /\ Len(rnd.clip.objects.type) = ClipCapacity
    /\ Len(rnd.clip.objects.position) = ClipCapacity * 3
    /\ Len(rnd.clip.objects.rotation) = ClipCapacity * 4
    /\ Len(rnd.clip.objects.scale) = ClipCapacity * 3

---------------------------------------------------------------------------
(* The choice of the transparency path *)

WboitError == "expected wboit to be enabled"

\* C14: entering the order-independent path of a draw pass whose wboit
\* sub-pass is absent or not enabled raises 'expected wboit to be enabled'
\* before any target is bound, cleared or drawn into: the throw is the only
\* step taken and the draw pass, the gl state, the renderer and the
\* drawables are as before; with the sub-pass enabled nothing is raised.
C14_WboitPathRequiresWboit ==
    [][ call'.op = "_renderWboit" =>
            IF wboitEnabled(dp)
            THEN /\ call'.error = "none"
                 /\ \A i \in DOMAIN log' : log'[i].op # "throw"
            ELSE /\ call'.error = WboitError
                 /\ log' = <<[op |-> "throw", message |-> WboitError]>>
                 /\ <<dp', gl', rnd', objs'>> = <<dp, gl, rnd, objs>> ]_vars

\* the order-independent path was entered on a draw pass without wboit,
\* after the blended path had bound and drawn into a target
C14_EnteredWithoutWboit ==
    /\ call.op = "_renderWboit"
    /\ ~wboitEnabled(dp)
    /\ call.error = WboitError
    /\ gl.framebuffer # GLInit.framebuffer

\* the commands of the order-independent path and of its sub-pass
WboitCommand(e) ==
    \/ e.op = "pass" /\ e.name \in {"renderWboitOpaque", "renderWboitTransparent"}
    \/ e.op = "wboit.render"
    \/ e.op = "bind" /\ e.fb = "wboit"
    \/ e.op = "setSize" /\ e.on = "wboit"

BlendedScenePasses ==
    {log[i].name : i \in {j \in DOMAIN log : ScenePass(log[j])}}

\* C15: the transparency path is fixed at construction: over any sequence
\* of setSize and render, the presence and the enabling of the wboit
\* sub-pass never change, a draw pass constructed without it never calls
\* renderWboitOpaque, renderWboitTransparent or the sub-pass and renders
\* every frame with the blended passes, and no render raises the error.
C15_PathFixedAtConstruction ==
    /\ [](\A i \in DOMAIN log : log[i].op # "throw")
    /\ [](~dp.wboit.present =>
            /\ \A i \in DOMAIN log : ~WboitCommand(log[i])
            /\ call.op = "render" =>
                    {"renderBlendedOpaque", "renderBlendedTransparent"}
                        \subseteq BlendedScenePasses)
    /\ [][dp'.wboit.present = dp.wboit.present
            /\ dp'.wboit.enabled = dp.wboit.enabled]_vars

\* a frame into the color target of a draw pass constructed without wboit
C15_BlendedFrame ==
    /\ call.op = "render"
    /\ ~call.toDrawingBuffer
    /\ ~dp.wboit.present
    /\ "renderBlendedVolume" \in BlendedScenePasses
    /\ "renderBlendedTransparent" \in BlendedScenePasses

---------------------------------------------------------------------------
(* The flags of a drawable *)

DrawEntries == {i \in DOMAIN log : log[i].op = "draw"}

DrawnIds == {log[i].id : i \in DrawEntries}

GroupIds == Ids(scene.primitives)

\* C16: renderPick with a pick variant draws a drawable if and only if it is
\* visible, pickable and not color-only, and issues every such draw with
\* blending disabled, depth test enabled and depth write enabled; no pass
\* draws an invisible drawable; a drawable that is not pickable is skipped by
\* renderObject exactly when the variant is a pick variant: renderPick with
\* another variant, renderDepth and renderBlended draw it when it is visible.
C16_PickDrawsPickable ==
    /\ \A i \in DrawEntries : objs[log[i].id].visible
    /\ call.op = "renderPick" =>
            /\ DrawnIds = {id \in GroupIds :
                              /\ objs[id].visible
                              /\ ~objs[id].colorOnly
                              /\ call.variant \in PickVariants => objs[id].pickable}
            /\ call.variant \in PickVariants =>
                    \A i \in DrawEntries :
                        /\ ~log[i].state.BLEND
                        /\ log[i].state.DEPTH_TEST
                        /\ log[i].state.depthMask
    /\ call.op \in {"renderDepth", "renderBlended"} =>
            DrawnIds = {id \in GroupIds : objs[id].visible}

\* renderPick with a pick variant drew the first drawable and skipped the
\* second, visible and not color-only, because it is not pickable
C16_NotPickableSkipped ==
    /\ call.op = "renderPick"
    /\ call.variant \in PickVariants
    /\ GroupIds = {1, 2}
    /\ DrawnIds = {1}
    /\ objs[2].visible /\ ~objs[2].colorOnly /\ ~objs[2].pickable

\* the drawables of the log that have no render mode
MeshDraws == {i \in DrawEntries : objs[log[i].id].dRenderMode = "undefined"}

Winding(i) == <<log[i].state.frontFace, log[i].state.cullFace>>

FlagWinding(r) == IF r.dFlipSided = "true" THEN <<"CW", "FRONT">> ELSE <<"CCW", "BACK">>

\* C20 as stated: every non-volumetric drawable is drawn with culling
\* enabled unless it is double-sided or reflective, clockwise and culling
\* front faces when flipped and counter-clockwise and culling back faces
\* otherwise.
C20_CulledUnlessDoubleSided ==
    \A i \in MeshDraws :
        LET r == objs[log[i].id]
        IN  /\ log[i].state.CULL_FACE = ~(r.dDoubleSided = "true" \/ r.hasReflection)
            /\ Winding(i) = FlagWinding(r)

\* C20: a non-volumetric drawable is drawn with culling enabled exactly when
\* it carries the double-sided define, the define is false and the drawable
\* is not reflective; a drawable without the define is drawn with culling
\* disabled. It is drawn clockwise and culling front faces when its flip
\* define is true, counter-clockwise and culling back faces otherwise. Both
\* follow from the flags of the drawable alone, whatever was drawn before.
C20_CulledWhenSingleSided ==
    \A i \in MeshDraws :
        LET r == objs[log[i].id]
        IN  /\ log[i].state.CULL_FACE = (r.dDoubleSided = "false" /\ ~r.hasReflection)
            /\ Winding(i) = FlagWinding(r)

\* a drawable without defines was drawn, with culling disabled and the
\* default winding, after a single-sided flipped one
C20_AfterFlipped ==
    /\ call.op = "renderDepth"
    /\ DrawnIds = {1, 2}
    /\ objs[1].dDoubleSided = "false" /\ objs[1].dFlipSided = "true"
    /\ objs[2].dDoubleSided = "undefined" /\ objs[2].dFlipSided = "undefined"
    /\ \E i \in DrawEntries : log[i].id = 1 /\ log[i].state.CULL_FACE
    /\ \E i \in DrawEntries : log[i].id = 2 /\ ~log[i].state.CULL_FACE

---------------------------------------------------------------------------
(* The order of a frame *)

\* the camera of the k-th single-eye sequence of the frame
EyeCamera(k) ==
    IF StereoCameraIs(call.camera)
    THEN IF k = 1 THEN call.camera.left ELSE call.camera.right
    ELSE call.camera

\* the commands that clear or draw into a target
ClearOrDraw(e) == e.op \in {"clear", "clearDepth", "gl.clear", "draw", "pass",
                             "depthMerge.render", "wboit.render"}

\* the commands of the scene path, and those of the helper overlays
ScenePathCommand(e) ==
    \/ e.op \in {"bind", "attachFramebuffer", "clear", "clearDepth", "gl.clear",
                  "depthMerge.update", "depthMerge.render", "wboit.render"}
    \/ e.op \in {"pass", "renderObject", "draw"} /\ e.group \in SceneGroups

HelperCommand(e) ==
    \/ e.op \in {"helper.debug.syncVisibility", "helper.camera.update"}
    \/ e.op \in {"pass", "renderObject", "draw"} /\ e.group \notin SceneGroups
    \/ e.op = "update" /\ e.camera = HelperCamera.id

\* C18: render sets the transparent-background flag and the drawing-buffer
\* size on the renderer before the first single-eye sequence starts and
\* issues no clear or draw before it; each single-eye sequence sets the
\* viewport from its camera and refreshes the camera uniforms before its
\* first clear or draw, draws the helper overlays only after the last
\* command of the scene path, and issues exactly one flush, its last command.
C18_FrameOrder ==
    call.op = "render" =>
        /\ EyeCount >= 1
        /\ \A i \in 1 .. EyeStartSeq[1] - 1 : ~ClearOrDraw(log[i])
        /\ \A k \in 1 .. EyeCount :
            LET eye == EyeLog(k)
                first == CHOOSE i \in DOMAIN eye :
                            /\ ClearOrDraw(eye[i])
                            /\ \A j \in 1 .. i - 1 : ~ClearOrDraw(eye[j])
            IN  /\ eye[1].transparentBackground = call.transparentBackground
                /\ eye[1].drawingBufferSize
                        = <<dp.colorTarget.width, dp.colorTarget.height>>
                /\ \E i \in DOMAIN eye : ClearOrDraw(eye[i])
                /\ eye[first].op = "clear"
                /\ eye[first].state.viewport = EyeCamera(k).viewport
                /\ eye[first].state.scissor = EyeCamera(k).viewport
                /\ \E j \in 1 .. first - 1 :
                        eye[j].op = "update" /\ eye[j].camera = EyeCamera(k).id
                /\ \A i \in DOMAIN eye :
                        /\ (eye[i].op = "draw" /\ eye[i].group \in SceneGroups) =>
                            /\ eye[i].state.viewport = EyeCamera(k).viewport
                            /\ eye[i].uniforms.uView = EyeCamera(k).id
                            /\ eye[i].uniforms.uViewport = EyeCamera(k).viewport
                            /\ eye[i].uniforms.uTransparentBackground
                                    = call.transparentBackground
                            /\ eye[i].uniforms.uDrawingBufferSize
                                    = <<dp.colorTarget.width, dp.colorTarget.height>>
                        /\ HelperCommand(eye[i]) =>
                                \A j \in DOMAIN eye : ScenePathCommand(eye[j]) => j < i
                        /\ eye[i].op = "gl.flush" <=> i = Len(eye)

\* a stereo frame with a transparent background, the size of the drawing
\* buffer uploaded first, drawables in the scene and every helper drawn
C18_StereoFrameWithHelpers ==
    /\ call.op = "render"
    /\ StereoCameraIs(call.camera)
    /\ call.transparentBackground
    /\ log[1].op = "ValueCell.update"
    /\ helper.debug.isEnabled /\ helper.handle.isEnabled /\ helper.camera.isEnabled
    /\ \E i \in DOMAIN log : log[i].op = "draw" /\ log[i].group \in SceneGroups
    /\ \E i \in DOMAIN log : log[i].op = "draw" /\ log[i].group \notin SceneGroups

---------------------------------------------------------------------------
(* The clip defines of a drawable *)

\* the clip defines stored in a drawable differ from those it is drawn with
ClipDefinesDiffer(r, clip) ==
    IF r.noClip
    THEN r.dClipObjectCount # 0
    ELSE r.dClipObjectCount # clip.objects.count \/ r.dClipVariant # clip.variant

\* the number of times a pass re-linked a drawable
Relinks(entries, id) ==
    Cardinality({i \in DOMAIN entries : entries[i].op = "r.update" /\ entries[i].id = id})

\* C19 as stated, in its last part: in the first pass after a setProps that
\* changed the clip count, every clipped drawable that is drawn is re-linked
\* exactly once.
C19_RelinkedAfterEveryChange ==
    (call.op \in {"renderDepth", "renderBlended"} /\ call.afterCountChange) =>
        \A id \in Ids(scene.primitives) :
            (~objs[id].noClip /\ \E i \in DOMAIN log : log[i].op = "draw" /\ log[i].id = id)
                => Relinks(log, id) = 1

\* C19: after a pass has drawn a drawable, its clip-object-count define is
\* 0 if it opts out of clipping and otherwise the clip count of the renderer,
\* with its clip-variant define equal to the clip variant of the renderer;
\* the pass re-linked the drawable once if one of these values differed from
\* the value stored in the drawable and not at all if none did: a second
\* draw without a change of the clip configuration re-links nothing, and
\* the first draw after a change of the clip count re-links once when the
\* count differs from the one the drawable is linked for, and nothing when
\* the count was changed back to it. A drawable that was not drawn keeps
\* its defines and is not re-linked.
C19_ClipDefinesFollowRenderer ==
    [][ call'.op \in {"renderDepth", "renderBlended"} =>
            \A id \in Ids(scene.primitives) :
                IF \E i \in DOMAIN log' : log'[i].op = "draw" /\ log'[i].id = id
                THEN /\ objs'[id].dClipObjectCount
                            = IF objs[id].noClip THEN 0 ELSE rnd.clip.objects.count
                     /\ ~objs[id].noClip => objs'[id].dClipVariant = rnd.clip.variant
                     /\ Relinks(log', id)
                            = IF ClipDefinesDiffer(objs[id], rnd.clip) THEN 1 ELSE 0
                     /\ ~ClipDefinesDiffer(objs'[id], rnd'.clip)
                ELSE /\ objs'[id].dClipObjectCount = objs[id].dClipObjectCount
                     /\ objs'[id].dClipVariant = objs[id].dClipVariant
                     /\ Relinks(log', id) = 0 ]_vars

\* setProps changed the clip count to one the drawables had not been linked
\* for, and the next pass re-linked the clipped drawables and no other
C19_RelinkedAfterChange ==
    /\ call.op = "renderDepth"
    /\ call.afterCountChange
    /\ rnd.clip.objects.count = ClipCapacity
    /\ Relinks(log, 1) = 1 /\ Relinks(log, 3) = 1
    /\ Relinks(log, 2) = 1 /\ objs[2].dClipObjectCount = 0
    /\ Relinks(log, 4) = 0

---------------------------------------------------------------------------
(* The draw state of direct volumes *)

\* depth test and depth mask as the pass of the call leaves them before its
\* first drawable: renderWboitTransparent sets neither
PassDepthState ==
    IF call'.op = "renderWboitTransparent"
    THEN <<gl.DEPTH_TEST, gl.depthMask>>
    ELSE <<TRUE, TRUE>>

C22_DepthStateOfSubPasses ==
    /\ call.op = "renderBlendedTransparent" =>
            \A i \in DrawEntries :
                IF objs[log[i].id].writeDepth
                THEN log[i].state.DEPTH_TEST /\ log[i].state.depthMask
                ELSE ~log[i].state.depthMask
    /\ call.op = "renderBlendedOpaque" =>
            \A i \in DrawEntries : log[i].state.DEPTH_TEST /\ log[i].state.depthMask

---------------------------------------------------------------------------
(* The depth of the blended path *)

\* the frame of the call took the blended path into the color target
BlendedFrameToColorTarget ==
    call.op = "render" /\ ~wboitEnabled(dp) /\ ~call.toDrawingBuffer

\* the position of the pass of a group in a single-eye sequence
PassIndex(eye, name, group) ==
    CHOOSE i \in DOMAIN eye :
        eye[i].op = "pass" /\ eye[i].name = name /\ eye[i].group = group

\* the depth of the color target is cleared between the opaque primitives
\* and the volumes
DepthClearedBeforeVolumes(eye) ==
    \E j \in DOMAIN eye :
        /\ PassIndex(eye, "renderBlendedOpaque", "primitives") < j
        /\ j < PassIndex(eye, "renderBlendedVolume", "volumes")
        /\ eye[j].op \in {"clear", "clearDepth"}
        /\ eye[j].fb = "colorTarget"

\* C23 as stated: the depth is cleared before the volumes exactly when the
\* depth is packed.
C23_DepthClearedWhenPacked ==
    BlendedFrameToColorTarget =>
        \A k \in 1 .. EyeCount : DepthClearedBeforeVolumes(EyeLog(k)) <=> dp.packedDepth

\* C23: in the blended path into the color target, the depth is cleared
\* before the volumes are rendered exactly when the device uses native
\* depth textures (packedDepth is false), after the depth texture of the
\* volumes was attached; with packed depth it is not cleared.
C23_DepthClearedWhenNative ==
    BlendedFrameToColorTarget =>
        \A k \in 1 .. EyeCount :
            LET eye == EyeLog(k)
                volumes == PassIndex(eye, "renderBlendedVolume", "volumes")
            IN  /\ DepthClearedBeforeVolumes(eye) <=> ~dp.packedDepth
                /\ ~dp.packedDepth =>
                        /\ eye[volumes - 1].op = "clearDepth"
                        /\ eye[volumes - 2].op = "attachFramebuffer"
                        /\ eye[volumes - 2].texture = "depthTextureVolumes"
                        /\ eye[volumes].writes = "depthTextureVolumes"

\* a blended frame of a scene with a volume into the color target on a
\* device with native depth textures
C23_NativeDepthFrame ==
    /\ BlendedFrameToColorTarget
    /\ ~dp.packedDepth
    /\ Len(scene.volumes.renderables) > 0
    /\ DepthClearedBeforeVolumes(EyeLog(1))

\* the size of a texture as the pair the depth merge holds it in
TexSize(textures, texture) == <<textures[texture].width, textures[texture].height>>

\* C25: in every state of a draw pass, after construction and after any
\* setSize, the texture-size uniform of the depth merge equals the size of
\* the depth texture of the primitives and that of the volumes, and every
\* depth merge runs with a texture size that matches its two inputs.
C25_DepthMergeTexSize ==
    /\ dp.depthMerge.uTexSize = TexSize(dp.textures, dp.depthMerge.tDepthPrimitives)
    /\ dp.depthMerge.uTexSize = TexSize(dp.textures, dp.depthMerge.tDepthVolumes)
    /\ \A i \in DOMAIN log :
            log[i].op = "depthMerge.render" =>
                /\ log[i].values.uTexSize
                        = TexSize(log[i].textures, log[i].values.tDepthPrimitives)
                /\ log[i].values.uTexSize
                        = TexSize(log[i].textures, log[i].values.tDepthVolumes)

\* setSize resized a draw pass with native depth textures to a size that is
\* not square
C25_ResizedNativeDepth ==
    /\ call.op = "setSize"
    /\ \E i \in DOMAIN log : log[i].op = "define" /\ log[i].on = "depthTextureVolumes"
    /\ call.width # call.height
    /\ dp.depthMerge.uTexSize = <<call.width, call.height>>

\* the state the depth merge draws and clears with
DepthMergeState(g) ==
    /\ g.framebuffer = "depthTarget"
    /\ ~g.BLEND /\ ~g.DEPTH_TEST /\ ~g.CULL_FACE /\ ~g.depthMask
    /\ g.clearColor = "1,1,1,1"

\* C24: every depth merge binds the depth target, then disables blending,
\* depth test, culling and depth write, sets the clear color to (1,1,1,1)
\* and clears the color buffer, and only then draws the quad; the blended
\* path binds the color target as its next command.
C24_DepthMergeSequence ==
    \A i \in DOMAIN log :
        log[i].op = "depthMerge.render" =>
            /\ i > 2
            /\ log[i - 2] = [op |-> "bind", fb |-> "depthTarget"]
            /\ log[i - 1].op = "gl.clear"
            /\ log[i - 1].mask = "COLOR"
            /\ log[i - 1].fb = "depthTarget"
            /\ DepthMergeState(log[i - 1].state)
            /\ log[i].fb = "depthTarget"
            /\ DepthMergeState(log[i].state)
            /\ (call.op = "render" /\ ~wboitEnabled(dp)) =>
                    /\ i < Len(log)
                    /\ log[i + 1] = [op |-> "bind", fb |-> "colorTarget"]

\* a blended frame merged the depths after drawing a transparent drawable
\* with blending and depth test enabled
C24_MergedAfterBlending ==
    /\ call.op = "render"
    /\ ~wboitEnabled(dp)
    /\ \E i \in DOMAIN log :
        /\ log[i].op = "depthMerge.render"
        /\ \E j \in 1 .. i - 1 :
            /\ log[j].op = "draw"
            /\ log[j].state.BLEND /\ log[j].state.DEPTH_TEST

---------------------------------------------------------------------------
(* The global uniforms and the shared depth texture of a draw *)

\* the uploads of the global uniforms to the program of the draw at i that
\* precede it in the log
UploadsBefore(i) ==
    {j \in 1 .. i - 1 : /\ log[j].op = "program.setUniforms"
                        /\ log[j].program = log[i].program}

\* the latest of them
LastUpload(i) == CHOOSE j \in UploadsBefore(i) : \A k \in UploadsBefore(i) : k <= j

\* C26: every draw of renderWboitTransparent is made with the global
\* uniform uRenderWboit true and every draw of any other pass with
\* uRenderWboit false, in the value cell and in the values its program
\* received last.
C26_RenderWboitUniform ==
    \A i \in DrawEntries :
        /\ log[i].uniforms.uRenderWboit = (log[i].pass = "renderWboitTransparent")
        /\ UploadsBefore(i) # {}
        /\ log[LastUpload(i)].values.uRenderWboit
                = (log[i].pass = "renderWboitTransparent")

\* renderWboitTransparent drew drawables of two programs
C26_WboitTransparentDrawn ==
    /\ call.op = "renderWboitTransparent"
    /\ Cardinality({log[i].program : i \in DrawEntries}) = 2
    /\ \A i \in DrawEntries : log[i].uniforms.uRenderWboit

\* C27: in every pass the shared depth texture tDepth of each draw is the
\* depth texture given to the pass, or the null depth texture when the pass
\* was given none, whatever the passes before were given.
C27_DepthTextureOfThePass ==
    \A i \in DrawEntries :
        log[i].tDepth = IF call.depthTexture = "null" THEN NullTexture
                        ELSE call.depthTexture

\* a pass that was given no depth texture drew with the null depth texture
C27_DrawnWithNullTexture ==
    /\ call.op = "renderBlendedVolume"
    /\ call.depthTexture = "null"
    /\ rnd.tDepth = NullTexture
    /\ Cardinality(DrawEntries) = MaxGroup

\* the commands before the draw at i that start a pass or bind a program
PassOrBindBefore(i) ==
    {j \in 1 .. i - 1 : log[j].op \in {"pass", "program.use"}}

\* C28: every draw of every pass is made with its program bound, and the
\* program has received the global uniforms, with the values of the draw,
\* after the pass started and after the program was bound last, whatever
\* the order of the programs in the group and whichever program the pass
\* before left bound.
C28_UniformsUploadedBeforeDraw ==
    \A i \in DrawEntries :
        /\ log[i].state.currentProgramId = log[i].program
        /\ UploadsBefore(i) # {}
        /\ \A j \in PassOrBindBefore(i) : j < LastUpload(i)
        /\ log[LastUpload(i)].values = log[i].uniforms

\* the first drawable of the pass uses the program the pass before left
\* bound, and the pass returns to that program after another one
C28_ProgramAlreadyBound ==
    /\ call.op = "renderDepth"
    /\ Cardinality(DrawEntries) = MaxGroup
    /\ \E i \in DrawEntries :
        /\ \A j \in 1 .. i - 1 : log[j].op # "program.use"
        /\ \E k \in DrawEntries :
            /\ k > i
            /\ log[k].program = log[i].program
            /\ \E j \in i .. k : log[j].op = "draw" /\ log[j].program # log[i].program

---------------------------------------------------------------------------
(* The packed-depth targets *)

PackedDepthTargets == {"depthTargetPrimitives", "depthTargetVolumes"}

\* C29: whenever the blended path renders a depth pass into a packed-depth
\* target, of the primitives or of the volumes, the target was cleared by
\* the command before to the color (1,1,1,1), for either value of the
\* transparent-background flag given to render.
C29_PackedDepthClearedToFar ==
    call.op = "render" =>
        \A i \in DOMAIN log :
            ( /\ log[i].op = "pass"
              /\ log[i].name = "renderDepth"
              /\ log[i].fb \in PackedDepthTargets ) =>
                /\ i > 1
                /\ log[i - 1].op = "clear"
                /\ log[i - 1].fb = log[i].fb
                /\ log[i - 1].state.clearColor = "1,1,1,1"

---------------------------------------------------------------------------
(* Coverage of the order-independent path *)

\* C30: in a frame of the order-independent path every visible drawable,
\* whatever its alpha, alpha factor, average transparency and flags, is
\* handed to renderObject, and drawn, by at least one of renderWboitOpaque
\* and renderWboitTransparent.
C30_WboitCoversVisible ==
    call.op = "render" =>
        \A id \in SceneIds :
            objs[id].visible =>
                /\ id \in DispatchedBy(WboitOpaque) \cup DispatchedBy(WboitTransparent)
                /\ id \in DrawnBy(WboitOpaque) \cup DrawnBy(WboitTransparent)

\* a drawable of alpha 1 and average transparency 1 without any flag, which
\* renderWboitOpaque leaves out, was drawn by renderWboitTransparent
C30_FullyTransparentDrawn ==
    /\ call.op = "render"
    /\ \E id \in SceneIds :
        /\ objs[id].visible
        /\ SolidShape(objs[id])
        /\ objs[id].transparencyAverage = One
        /\ ~objs[id].uBackgroundColor
        /\ id \notin DispatchedBy(WboitOpaque)
        /\ id \in DrawnBy(WboitTransparent)

---------------------------------------------------------------------------
(* The drawables renderBlended draws *)

\* the positions of the log where drawable id was handed to renderObject, and
\* where it was drawn
DispatchesOf(id) == {i \in DOMAIN log : log[i].op = "renderObject" /\ log[i].id = id}

DrawsOf(id) == {i \in DOMAIN log : log[i].op = "draw" /\ log[i].id = id}

\* C31: renderBlended hands every drawable of the group to renderObject
\* exactly once (the three selections partition the group), so it draws
\* every visible drawable exactly once and no invisible one, and it draws
\* all opaque drawables before all non-opaque ones.
C31_BlendedDrawsEachOnce ==
    call.op = "renderBlended" =>
        /\ \A id \in GroupIds :
            /\ Cardinality(DispatchesOf(id)) = 1
            /\ Cardinality(DrawsOf(id)) = IF objs[id].visible THEN 1 ELSE 0
            /\ \A i \in DispatchesOf(id) :
                log[i].pass = IF objs[id].opaque THEN "renderBlendedOpaque"
                              ELSE "renderBlendedTransparent"
        /\ \A i \in DrawEntries, j \in DrawEntries :
            (objs[log[i].id].opaque /\ ~objs[log[j].id].opaque) => i < j
        /\ \A i \in DrawEntries : log[i].id \in GroupIds

\* renderBlended drew an opaque drawable that writes depth once, after it a
\* non-opaque drawable that precedes it in the group, and skipped an
\* invisible one
C31_OpaqueDepthWriterDrawnOnce ==
    /\ call.op = "renderBlended"
    /\ \E a \in GroupIds, b \in GroupIds, d \in GroupIds :
        /\ b < a
        /\ objs[a].visible /\ objs[a].opaque /\ objs[a].writeDepth
        /\ objs[b].visible /\ ~objs[b].opaque
        /\ ~objs[d].visible
        /\ Cardinality(DrawsOf(a)) = 1
        /\ \A i \in DrawsOf(a), j \in DrawsOf(b) : i < j
        /\ DrawsOf(b) # {}
        /\ DrawsOf(d) = {}

---------------------------------------------------------------------------
(* The framebuffer bound after the scene path *)

\* the framebuffers an eye's commands bound, in order
Binds(eye) == SelectSeq(eye, LAMBDA e : e.op = "bind")

\* C32: in every single-eye sequence of either path the framebuffer bound
\* when the helper overlays are drawn and when the sequence ends is the
\* destination of the frame (the color target, or the drawing buffer when
\* toDrawingBuffer is true): the last framebuffer the scene path binds is the
\* destination, whatever targets it bound in between.
C32_DestinationBoundAfterScenePath ==
    call.op = "render" =>
        \A k \in 1 .. EyeCount :
            LET eye == EyeLog(k)
                binds == Binds(eye)
            IN  /\ Len(binds) >= 1
                /\ binds[Len(binds)].fb = Destination(call.toDrawingBuffer)
                /\ \A i \in DOMAIN eye :
                    /\ (eye[i].op \in {"pass", "draw"} /\ eye[i].group \notin SceneGroups) =>
                            eye[i].fb = Destination(call.toDrawingBuffer)
                    /\ (eye[i].op = "bind" /\ eye[i].fb # Destination(call.toDrawingBuffer)) =>
                            \A j \in DOMAIN eye : HelperCommand(eye[j]) => i < j
                    /\ eye[i].op = "gl.flush" =>
                            eye[i].fb = Destination(call.toDrawingBuffer)
                /\ eye[Len(eye)].op = "gl.flush"

\* a blended stereo frame into the color target of a device with packed
\* depth bound both packed-depth targets and the depth target of the merge,
\* and then drew the helper overlays
C32_HelpersAfterDepthMerge ==
    /\ call.op = "render"
    /\ ~call.toDrawingBuffer
    /\ StereoCameraIs(call.camera)
    /\ ~wboitEnabled(dp)
    /\ \A fb \in {"depthTargetPrimitives", "depthTargetVolumes", "depthTarget"} :
            \E i \in DOMAIN log : log[i].op = "bind" /\ log[i].fb = fb
    /\ \E i \in DOMAIN log :
            log[i].op = "draw" /\ log[i].group \notin SceneGroups /\ log[i].fb = "colorTarget"

---------------------------------------------------------------------------
(* The clears of a single-eye sequence *)

Clears == {"clear", "clearDepth", "gl.clear"}

\* C33: every clear of a single-eye sequence (renderer.clear,
\* renderer.clearDepth and the color clear of the depth merge) is issued with
\* the scissor test enabled and the scissor rectangle equal to the viewport
\* of that eye's camera, and every color and depth clear of renderer.clear is
\* issued with depth mask true and the full color mask, whatever state the
\* commands before it left.
C33_ClearsWithinEyeViewport ==
    call.op = "render" =>
        \A k \in 1 .. EyeCount :
            LET eye == EyeLog(k) IN
            \A i \in DOMAIN eye :
                /\ eye[i].op \in Clears =>
                    /\ eye[i].state.SCISSOR_TEST
                    /\ eye[i].state.scissor = EyeCamera(k).viewport
                /\ eye[i].op = "clear" =>
                    /\ eye[i].mask = "COLOR|DEPTH"
                    /\ eye[i].state.depthMask
                    /\ eye[i].state.colorMask = <<TRUE, TRUE, TRUE, TRUE>>

\* in a stereo frame the depth merge of the left eye left the depth mask
\* false, and the right eye cleared color and depth, the depth alone and the
\* depth target of the merge within its own viewport
C33_RightEyeClearsAfterMerge ==
    /\ call.op = "render"
    /\ StereoCameraIs(call.camera)
    /\ EyeCount = 2
    /\ \E i \in DOMAIN EyeLog(1) :
            EyeLog(1)[i].op = "depthMerge.render" /\ ~EyeLog(1)[i].state.depthMask
    /\ \A op \in Clears :
            \E i \in DOMAIN EyeLog(2) :
                /\ EyeLog(2)[i].op = op
                /\ EyeLog(2)[i].state.scissor = RightCamera.viewport
                /\ EyeLog(2)[i].state.scissor # LeftCamera.viewport

====
